---- MODULE Spec2Model ----
(***************************************************************************)
(* Verification model of the HTML-to-Portable-Text conversion pipeline of  *)
(* brendans-blog: the block converter and inline parser                    *)
(* (scripts/update-post-formatting.js, scripts/substack-to-json.js), the   *)
(* key assigner (addKeysToContent), the RSS renderers                      *)
(* (netlify/functions/rss-feed.js, scripts/generate-rss.js) and the title  *)
(* cleanup of the extractor (scripts/substack-to-json.js).                 *)
(*                                                                         *)
(* JavaScript strings are modelled as sequences of one-character strings,  *)
(* so that trimming, prefix tests and regular expressions are computed     *)
(* character by character.  A key is a sequence of string tokens; the      *)
(* empty sequence stands for a missing (falsy) _key.                       *)
(***************************************************************************)
EXTENDS Integers, Sequences, FiniteSets, TLC

VARIABLES
    content,   \* the block sequence (Portable Text document) being processed
    before,    \* the argument of the latest operation applied to content
    ops,       \* names of the operations applied so far, in order
    now,       \* reading of Date.now() at the end of the latest operation
    drawn,     \* what the generateKey calls of the latest operation drew
    dom,       \* child nodes of the parsed HTML container (document.body)
    html,      \* output of the latest renderer call (markup tokens)
    desc,      \* output of the latest extractTextFromContent call
    title,     \* title string being resolved / cleaned
    fileName,  \* name of the exported HTML file
    record,    \* what the latest extraction returned
    store,     \* records held by the remote store (posts, audience contacts)
    calls,     \* calls issued to remote services so far, in order
    input      \* command line, files and requests the run is given

vars ==
    <<content, before, ops, now, drawn, dom, html, desc, title, fileName,
      record, store, calls, input>>

(***************************************************************************)
(* Bounds of the model.                                                    *)
(***************************************************************************)
MaxBlocks == 2
MaxRuns == 2
MaxTime == 2
MaxKids == 2
MaxTitle == 4

(***************************************************************************)
(* Strings as sequences of characters.                                     *)
(***************************************************************************)
NoKey == <<>>
None == <<>>

\* All sequences over S of length at most n.
SeqsUpTo(S, n) == UNION {[1..k -> S] : k \in 0..n}

NumStr(n) == <<"0", "1", "2", "3", "4", "5", "6", "7", "8", "9">>[n + 1]

\* "abc" written as <<"a", "b", "c">>; the helpers below work on such sequences.
StartsWith(s, prefix) ==
    Len(s) >= Len(prefix) /\ SubSeq(s, 1, Len(prefix)) = prefix

LowerCase == <<"a", "b", "c", "d", "e", "f", "g", "h", "i", "j", "k", "l", "m",
               "n", "o", "p", "q", "r", "s", "t", "u", "v", "w", "x", "y", "z">>

UpperCase == <<"A", "B", "C", "D", "E", "F", "G", "H", "I", "J", "K", "L", "M",
               "N", "O", "P", "Q", "R", "S", "T", "U", "V", "W", "X", "Y", "Z">>

Digits == {"0", "1", "2", "3", "4", "5", "6", "7", "8", "9"}

IsLetter(c) == \E i \in 1..26 : c = LowerCase[i] \/ c = UpperCase[i]

\* c.toLowerCase() and c.toUpperCase() of one character.
ToLowerChar(c) ==
    IF \E i \in 1..26 : UpperCase[i] = c
    THEN LowerCase[CHOOSE i \in 1..26 : UpperCase[i] = c] ELSE c

ToUpperChar(c) ==
    IF \E i \in 1..26 : LowerCase[i] = c
    THEN UpperCase[CHOOSE i \in 1..26 : LowerCase[i] = c] ELSE c

ToLower(s) == [i \in 1..Len(s) |-> ToLowerChar(s[i])]

\* The offset-th suffix of s: s.slice(offset).
Slice(s, offset) == SubSeq(s, offset + 1, Len(s))

RECURSIVE ReplaceAll(_, _, _)
\* s.replace(/pat/g, rep) for a literal pattern.
ReplaceAll(s, pat, rep) ==
    LET after(i) == SubSeq(s, 1, i - 1) \o rep \o ReplaceAll(Slice(s, i - 1 + Len(pat)), pat, rep)
        first(hits) == IF hits = {} THEN s ELSE after(CHOOSE i \in hits : \A k \in hits : i <= k)
    IN  first({i \in 1..(Len(s) - Len(pat) + 1) : SubSeq(s, i, i + Len(pat) - 1) = pat})

RECURSIVE RunOf(_, _)
\* The longest prefix of s made of characters of set cs.
RunOf(s, cs) ==
    IF s # <<>> /\ Head(s) \in cs THEN <<Head(s)>> \o RunOf(Tail(s), cs) ELSE <<>>

(***************************************************************************)
(* Key assigner: scripts/update-post-formatting.js and                     *)
(* scripts/import-to-sanity.js.                                            *)
(***************************************************************************)

\* Distinct outcomes of Math.random().toString(36).substr(2, 9), by number.
RandTable ==
    <<"r01", "r02", "r03", "r04", "r05", "r06", "r07", "r08",
      "r09", "r10", "r11", "r12", "r13", "r14", "r15", "r16">>

\* generateKey(prefix): `${prefix}-${random}-${Date.now()}`, where draw is the
\* pair <<random suffix, clock reading>> the call reads from Math.random()
\* and Date.now().
generateKey(prefix, draw) == <<prefix, "-", draw[1], "-", NumStr(draw[2])>>

\* Constructors of the three block shapes the converter and the store use.
Span(text, marks) == [_type |-> "span", _key |-> NoKey, text |-> text, marks |-> marks]

LinkDef(key, href) == [_key |-> key, _type |-> "link", href |-> href]

TextBlock(style, listItem, children, markDefs) ==
    [_type |-> "block", _key |-> NoKey, style |-> style, listItem |-> listItem,
     children |-> children, markDefs |-> markDefs,
     _imageUrl |-> None, url |-> None, alt |-> None,
     code |-> None, language |-> None, codeKey |-> NoKey]

ImageBlock(src, alt) ==
    [_type |-> "image", _key |-> NoKey, style |-> "", listItem |-> "",
     children |-> <<>>, markDefs |-> <<>>,
     _imageUrl |-> src, url |-> None, alt |-> alt,
     code |-> None, language |-> None, codeKey |-> NoKey]

CodeBlock(code, language) ==
    [_type |-> "codeBlock", _key |-> NoKey, style |-> "", listItem |-> "",
     children |-> <<>>, markDefs |-> <<>>,
     _imageUrl |-> None, url |-> None, alt |-> None,
     code |-> code, language |-> language, codeKey |-> NoKey]

\* A key test that takes every element for unkeyed (keys regenerated on each run).
UnkeyedAlways(seq) == 1..Len(seq)

\* Positions of a sequence whose element lacks a (truthy) _key: !child._key.
Unkeyed(seq) == {j \in 1..Len(seq) : seq[j]._key = NoKey}

\* Number of generateKey calls the map body makes for one block; withCode
\* selects the import script's extra call for a codeBlock's code object.
CallsOf(block, withCode) ==
    (IF block._key = NoKey THEN 1 ELSE 0)
    + (IF block._type = "block" THEN Cardinality(Unkeyed(block.children)) ELSE 0)
    + Cardinality(Unkeyed(block.markDefs))
    + (IF withCode /\ block._type = "codeBlock" /\ block.code # None
          /\ block.codeKey = NoKey THEN 1 ELSE 0)

RECURSIVE CallsBefore(_, _, _)
\* Number of generateKey calls made for blocks 1..i-1.
CallsBefore(blocks, i, withCode) ==
    IF i = 1 THEN 0
    ELSE CallsBefore(blocks, i - 1, withCode) + CallsOf(blocks[i - 1], withCode)

TotalCalls(blocks, withCode) == CallsBefore(blocks, Len(blocks) + 1, withCode)

\* children.map(child => child._key ? child : {...child, _key: generateKey('span')});
\* base is the number of generateKey calls made before the map.
KeyChildren(children, draws, base) ==
    [j \in 1..Len(children) |->
        IF j \in Unkeyed(children)
        THEN [children[j] EXCEPT !._key =
                 generateKey("span",
                     draws[base + Cardinality({k \in Unkeyed(children) : k <= j})])]
        ELSE children[j]]

\* markDefs.map(markDef => markDef._key ? markDef : {...markDef, _key: generateKey('mark')})
KeyMarkDefs(markDefs, draws, base) ==
    [m \in 1..Len(markDefs) |->
        IF m \in Unkeyed(markDefs)
        THEN [markDefs[m] EXCEPT !._key =
                 generateKey("mark",
                     draws[base + Cardinality({k \in Unkeyed(markDefs) : k <= m})])]
        ELSE markDefs[m]]

\* The body of content.map in addKeysToContent of update-post-formatting.js.
KeyBlock(block, draws, base) ==
    LET afterBlock == base + (IF block._key = NoKey THEN 1 ELSE 0)
        afterChildren ==
            afterBlock + (IF block._type = "block"
                          THEN Cardinality(Unkeyed(block.children)) ELSE 0)
    IN  [block EXCEPT
            !._key = IF block._key = NoKey
                     THEN generateKey("block", draws[base + 1]) ELSE block._key,
            !.children = IF block._type = "block"
                         THEN KeyChildren(block.children, draws, afterBlock)
                         ELSE block.children,
            !.markDefs = KeyMarkDefs(block.markDefs, draws, afterChildren)]

\* addKeysToContent of update-post-formatting.js; draws[k] is the outcome of
\* the k-th generateKey call of the run.
addKeysToContent(blocks, draws) ==
    [i \in 1..Len(blocks) |->
        KeyBlock(blocks[i], draws, CallsBefore(blocks, i, FALSE))]

\* The body of content.map in addKeysToContent of import-to-sanity.js: as
\* above, and last a codeBlock's code object gets a _key as well.
KeyBlockImport(block, draws, base) ==
    [KeyBlock(block, draws, base) EXCEPT
        !.codeKey = IF block._type = "codeBlock" /\ block.code # None
                       /\ block.codeKey = NoKey
                    THEN generateKey("code", draws[base + CallsOf(block, TRUE)])
                    ELSE block.codeKey]

addKeysToContentImport(blocks, draws) ==
    [i \in 1..Len(blocks) |->
        KeyBlockImport(blocks[i], draws, CallsBefore(blocks, i, TRUE))]

\* The outcomes of n successive generateKey calls started at clock reading t0.
\* Math.random() may repeat a value: the random suffixes are pairwise
\* distinct except that call c[2] may repeat the suffix of call c[1]; the
\* millisecond clock ticks at most once meanwhile, after call p.
DrawsFor(n, t0) ==
    {[k \in 1..n |-> <<RandTable[IF k = c[2] THEN c[1] ELSE k],
                        IF k <= p THEN t0 ELSE t0 + 1>>] :
        c \in {<<1, 1>>} \cup {d \in (1..n) \X (1..n) : d[1] < d[2]},
        p \in {q \in 0..n : q = n \/ t0 + 1 <= MaxTime}}

LastTime(draws, t0) == IF Len(draws) = 0 THEN t0 ELSE draws[Len(draws)][2]

(***************************************************************************)
(* The DOM that JSDOM hands to the converters.  A node is a record; a text *)
(* node has nodeType 3, an element nodeType 1.                             *)
(***************************************************************************)
Text(s) ==
    [nodeType |-> 3, tagName |-> "", text |-> s, href |-> None, src |-> None,
     alt |-> None, className |-> None, childNodes |-> <<>>]

El(tag, kids) ==
    [nodeType |-> 1, tagName |-> tag, text |-> None, href |-> None, src |-> None,
     alt |-> None, className |-> None, childNodes |-> kids]

A(href, kids) == [El("a", kids) EXCEPT !.href = href]

Img(src, alt) == [El("img", <<>>) EXCEPT !.src = src, !.alt = alt]

\* <code class="language-X">: className holds X, the match of /language-(\w+)/.
Code(lang, kids) == [El("code", kids) EXCEPT !.className = lang]

\* Characters String.prototype.trim and \s treat as white space.
WS == {" ", "\n"}

RECURSIVE TrimStart(_)
\* text.replace(/^\s+/, '')
TrimStart(s) ==
    IF s = <<>> THEN s
    ELSE IF Head(s) \in WS THEN TrimStart(Tail(s)) ELSE s

RECURSIVE TrimEnd(_)
\* text.replace(/\s+$/, '')
TrimEnd(s) ==
    IF s = <<>> THEN s
    ELSE IF s[Len(s)] \in WS THEN TrimEnd(SubSeq(s, 1, Len(s) - 1)) ELSE s

\* text.trim()
Trim(s) == TrimEnd(TrimStart(s))

RECURSIVE textContent(_)
RECURSIVE textContentOf(_)
\* node.textContent: the text of all descendant text nodes, in document order.
textContent(node) ==
    IF node.nodeType = 3 THEN node.text ELSE textContentOf(node.childNodes)

textContentOf(nodes) ==
    IF nodes = <<>> THEN <<>>
    ELSE textContent(Head(nodes)) \o textContentOf(Tail(nodes))

\* getTextContent(element): element.textContent?.trim() || ''
getTextContent(element) == Trim(textContent(element))

RECURSIVE querySelectorAll(_, _)
RECURSIVE querySelectorAllIn(_, _)
\* element.querySelectorAll(tag): the descendants with that tag, in document order.
querySelectorAllIn(nodes, tag) ==
    IF nodes = <<>> THEN <<>>
    ELSE (IF Head(nodes).nodeType = 1 /\ Head(nodes).tagName = tag
          THEN <<Head(nodes)>> ELSE <<>>)
         \o querySelectorAll(Head(nodes), tag)
         \o querySelectorAllIn(Tail(nodes), tag)

querySelectorAll(element, tag) == querySelectorAllIn(element.childNodes, tag)

\* body.children: the element children only.
ElementChildren(nodes) == SelectSeq(nodes, LAMBDA n : n.nodeType = 1)

(***************************************************************************)
(* Inline content parser of scripts/update-post-formatting.js.             *)
(* acc is the pair of arrays (children, markDefs) the closure appends to;  *)
(* markDefIndex always equals markDefs.length.                             *)
(***************************************************************************)
StyleMarkOf(tagName) ==
    IF tagName \in {"strong", "b"} THEN <<<<"strong">>>>
    ELSE IF tagName \in {"em", "i"} THEN <<<<"em">>>>
    ELSE IF tagName = "code" THEN <<<<"code">>>>
    ELSE <<>>

\* `link-${markDefIndex++}`
\* A key allocation that ignores the index of the link within the call.
LinkKeyShared(index) == <<"link-", NumStr(0)>>

LinkKey(index) == <<"link-", NumStr(index)>>

\* The text-node test of update-post-formatting.js: if (text.trim()).
KeepsText(text) == Trim(text) # <<>>

RECURSIVE processNode(_, _, _)
RECURSIVE processNodes(_, _, _)
processNode(node, inheritedMarks, acc) ==
    IF node.nodeType = 3
    THEN IF KeepsText(node.text)
         THEN [acc EXCEPT !.children = Append(@, Span(node.text, inheritedMarks))]
         ELSE acc
    ELSE LET currentMarks == inheritedMarks \o StyleMarkOf(node.tagName)
         IN  IF node.tagName = "a"
             THEN IF node.href # None
                  THEN LET markKey == LinkKey(Len(acc.markDefs))
                       IN  processNodes(node.childNodes,
                               Append(currentMarks, markKey),
                               [acc EXCEPT !.markDefs =
                                   Append(@, LinkDef(markKey, node.href))])
                  ELSE acc
             ELSE processNodes(node.childNodes, currentMarks, acc)

processNodes(nodes, marks, acc) ==
    IF nodes = <<>> THEN acc
    ELSE processNodes(Tail(nodes), marks, processNode(Head(nodes), marks, acc))

parseInlineContent(element) ==
    processNodes(element.childNodes, <<>>, [children |-> <<>>, markDefs |-> <<>>])

(***************************************************************************)
(* Inline content parser of scripts/substack-to-json.js.                   *)
(***************************************************************************)
IsLink(nodes, i) ==
    i \in 1..Len(nodes) /\ nodes[i].nodeType = 1 /\ nodes[i].tagName = "a"

\* The whitespace policy of the text-node branch.
TrimTextNode(text, isFirst, isLast, prevIsLink, nextIsLink) ==
    IF isFirst /\ isLast THEN Trim(text)
    ELSE IF isFirst /\ ~nextIsLink THEN TrimStart(text)
    ELSE IF isLast /\ ~prevIsLink THEN TrimEnd(text)
    ELSE text

RECURSIVE processNodeSubstack(_, _, _, _)
RECURSIVE processNodesSubstack(_, _, _, _)
\* processNode(node, inheritedMarks, isFirst, isLast, prevSibling, nextSibling)
\* for node = siblings[i].
processNodeSubstack(siblings, i, inheritedMarks, acc) ==
    LET node == siblings[i] IN
    IF node.nodeType = 3
    THEN LET text == TrimTextNode(node.text, i = 1, i = Len(siblings),
                                  IsLink(siblings, i - 1), IsLink(siblings, i + 1))
         IN  IF text # <<>>
             THEN [acc EXCEPT !.children = Append(@, Span(text, inheritedMarks))]
             ELSE acc
    ELSE LET currentMarks == inheritedMarks \o StyleMarkOf(node.tagName)
         IN  IF node.tagName = "a"
             THEN LET text == getTextContent(node)
                      markKey == LinkKey(Len(acc.markDefs))
                  IN  IF text # <<>> /\ node.href # None
                      THEN [children |-> Append(acc.children,
                                Span(text, Append(currentMarks, markKey))),
                            markDefs |-> Append(acc.markDefs,
                                LinkDef(markKey, node.href))]
                      ELSE acc
             ELSE IF node.childNodes = <<>>
                  THEN IF node.tagName = "br"
                       THEN [acc EXCEPT !.children = Append(@, Span(<<"\n">>, <<>>))]
                       ELSE acc
                  ELSE processNodesSubstack(node.childNodes, 1, currentMarks, acc)

processNodesSubstack(siblings, i, marks, acc) ==
    IF i > Len(siblings) THEN acc
    ELSE processNodesSubstack(siblings, i + 1, marks,
             processNodeSubstack(siblings, i, marks, acc))

parseInlineContentSubstack(element) ==
    processNodesSubstack(element.childNodes, 1, <<>>,
                         [children |-> <<>>, markDefs |-> <<>>])

(***************************************************************************)
(* Block converter of scripts/update-post-formatting.js.                   *)
(***************************************************************************)
Headings == {"h1", "h2", "h3", "h4"}

\* A block pushed with every child regardless of what the inline parse found.
HasChildrenAlways(parsed) == TRUE

\* if (block && block.children.length > 0)
HasChildren(parsed) == Len(parsed.children) > 0

\* The text block pushed for one parsed element, if it has children.
InlineBlock(style, listItem, parsed) ==
    IF HasChildren(parsed)
    THEN <<TextBlock(style, listItem, parsed.children, parsed.markDefs)>>
    ELSE <<>>

RECURSIVE ListBlocks(_, _)
\* querySelectorAll('li').forEach: one block per li that has children.
ListBlocks(items, listType) ==
    IF items = <<>> THEN <<>>
    ELSE InlineBlock("normal", listType, parseInlineContent(Head(items)))
         \o ListBlocks(Tail(items), listType)

\* element.querySelector('code'): the first code descendant, or none.
PreBlock(element) ==
    LET found == querySelectorAll(element, "code") IN
    IF found = <<>> THEN <<>>
    ELSE LET code == getTextContent(found[1])
             language == IF found[1].className # None
                         THEN found[1].className ELSE <<"text">>
         IN  IF code # <<>> THEN <<CodeBlock(code, language)>> ELSE <<>>

\* The forEach callback of htmlToPortableText: the blocks pushed for one
\* child element of the container.
BlocksOfElement(element) ==
    LET tagName == element.tagName IN
    IF tagName \in Headings
    THEN InlineBlock(tagName, "", parseInlineContent(element))
    ELSE IF tagName = "blockquote"
    THEN InlineBlock("blockquote", "", parseInlineContent(element))
    ELSE IF tagName \in {"ul", "ol"}
    THEN ListBlocks(querySelectorAll(element, "li"),
                    IF tagName = "ul" THEN "bullet" ELSE "number")
    ELSE IF tagName = "img"
    THEN IF element.src # None THEN <<ImageBlock(element.src, element.alt)>> ELSE <<>>
    ELSE IF tagName \in {"p", "div"}
    THEN InlineBlock("normal", "", parseInlineContent(element))
    ELSE IF tagName = "pre"
    THEN PreBlock(element)
    ELSE <<>>

RECURSIVE BlocksOfElements(_)
BlocksOfElements(elements) ==
    IF elements = <<>> THEN <<>>
    ELSE BlocksOfElement(Head(elements)) \o BlocksOfElements(Tail(elements))

\* A converter that parses the whole container after the direct children in
\* every case.
ParseContainerAlways(bodyNodes) ==
    BlocksOfElements(ElementChildren(bodyNodes))
    \o InlineBlock("normal", "", parseInlineContent(El("body", bodyNodes)))

\* htmlToPortableText(htmlString), htmlString parsed to the child nodes of
\* document.body.
htmlToPortableText(bodyNodes) ==
    LET blocks == BlocksOfElements(ElementChildren(bodyNodes)) IN
    IF blocks = <<>>
    THEN InlineBlock("normal", "", parseInlineContent(El("body", bodyNodes)))
    ELSE blocks

(***************************************************************************)
(* Block converter of scripts/substack-to-json.js: headings, blockquotes,  *)
(* list items and the fallback keep the trimmed text only.                 *)
(***************************************************************************)
\* if (text) blocks.push({..., children: [{_type: 'span', text, marks: []}]})
PlainBlock(style, listItem, text) ==
    IF text # <<>>
    THEN <<TextBlock(style, listItem, <<Span(text, <<>>)>>, <<>>)>>
    ELSE <<>>

RECURSIVE ListBlocksSubstack(_, _)
ListBlocksSubstack(items, listType) ==
    IF items = <<>> THEN <<>>
    ELSE PlainBlock("normal", listType, getTextContent(Head(items)))
         \o ListBlocksSubstack(Tail(items), listType)

BlocksOfElementSubstack(element) ==
    LET tagName == element.tagName IN
    IF tagName \in Headings
    THEN PlainBlock(tagName, "", getTextContent(element))
    ELSE IF tagName = "blockquote"
    THEN PlainBlock("blockquote", "", getTextContent(element))
    ELSE IF tagName \in {"ul", "ol"}
    THEN ListBlocksSubstack(querySelectorAll(element, "li"),
                            IF tagName = "ul" THEN "bullet" ELSE "number")
    ELSE IF tagName = "img"
    THEN IF element.src # None THEN <<ImageBlock(element.src, element.alt)>> ELSE <<>>
    ELSE IF tagName \in {"p", "div"}
    THEN InlineBlock("normal", "", parseInlineContentSubstack(element))
    ELSE IF tagName = "pre"
    THEN PreBlock(element)
    ELSE <<>>

RECURSIVE BlocksOfElementsSubstack(_)
BlocksOfElementsSubstack(elements) ==
    IF elements = <<>> THEN <<>>
    ELSE BlocksOfElementSubstack(Head(elements))
         \o BlocksOfElementsSubstack(Tail(elements))

htmlToPortableTextSubstack(bodyNodes) ==
    LET blocks == BlocksOfElementsSubstack(ElementChildren(bodyNodes)) IN
    IF blocks = <<>>
    THEN PlainBlock("normal", "", getTextContent(El("body", bodyNodes)))
    ELSE blocks

(***************************************************************************)
(* Renderers: netlify/functions/rss-feed.js and scripts/generate-rss.js.   *)
(* The markup a renderer returns is modelled as a sequence of tokens       *)
(* (opening tag with its attributes, closing tag, run of text); marks are  *)
(* strings, as both converters produce them.                               *)
(***************************************************************************)
Open(tag) ==
    [kind |-> "open", tag |-> tag, text |-> None, href |-> None, src |-> None,
     alt |-> None, className |-> None]

Close(tag) == [Open(tag) EXCEPT !.kind = "close"]

Chars(text) == [Open("") EXCEPT !.kind = "text", !.text = text]

OpenA(href) == [Open("a") EXCEPT !.href = href]

Wrap(tag, tokens) == <<Open(tag)>> \o tokens \o <<Close(tag)>>

HexDigits == Digits \cup {"a", "b", "c", "d", "e", "f", "A", "B", "C", "D", "E", "F"}

\* The lookahead (?!amp;|lt;|gt;|quot;|apos;|#\d+;|#x[0-9a-fA-F]+;) fails: the
\* text after an ampersand completes an entity.
IsEntityTail(rest) ==
    \/ StartsWith(rest, <<"a", "m", "p", ";">>)
    \/ StartsWith(rest, <<"l", "t", ";">>)
    \/ StartsWith(rest, <<"g", "t", ";">>)
    \/ StartsWith(rest, <<"q", "u", "o", "t", ";">>)
    \/ StartsWith(rest, <<"a", "p", "o", "s", ";">>)
    \/ /\ StartsWith(rest, <<"#">>)
       /\ LET run == RunOf(Tail(rest), Digits)
          IN  run # <<>> /\ StartsWith(Slice(rest, 1 + Len(run)), <<";">>)
    \/ /\ StartsWith(rest, <<"#", "x">>)
       /\ LET run == RunOf(Slice(rest, 2), HexDigits)
          IN  run # <<>> /\ StartsWith(Slice(rest, 2 + Len(run)), <<";">>)

RECURSIVE EscapeAmp(_)
\* s.replace(/&(?!amp;|lt;|gt;|quot;|apos;|#\d+;|#x[0-9a-fA-F]+;)/g, '&amp;')
EscapeAmp(s) ==
    LET after(i) == SubSeq(s, 1, i - 1) \o <<"&", "a", "m", "p", ";">> \o EscapeAmp(Slice(s, i))
        first(hits) == IF hits = {} THEN s ELSE after(CHOOSE i \in hits : \A k \in hits : i <= k)
    IN  first({i \in 1..Len(s) : s[i] = "&" /\ ~IsEntityTail(Slice(s, i))})

\* escapeXmlText(text)
escapeXmlText(text) ==
    ReplaceAll(EscapeAmp(text), <<"]", "]", ">">>,
               <<"]", "]", "]", "]", ">", "<", "!", "[", "C", "D", "A", "T", "A", "[", ">">>)

\* href.match(/^https?:\/\//i)
HasHttpScheme(href) ==
    \/ StartsWith(ToLower(href), <<"h", "t", "t", "p", ":", "/", "/">>)
    \/ StartsWith(ToLower(href), <<"h", "t", "t", "p", "s", ":", "/", "/">>)

\* The text after the http(s):// prefix.
AfterHttpScheme(href) ==
    IF StartsWith(ToLower(href), <<"h", "t", "t", "p", "s", ":", "/", "/">>)
    THEN Slice(href, 8) ELSE Slice(href, 7)

\* href.match(/^https?:\/\/[^\/\s]+\.[^\/\s]+/i): within the run of characters
\* after the scheme that are neither '/' nor white space, a dot stands with
\* at least one character on each side.
MatchesHttpUrl(href) ==
    /\ HasHttpScheme(href)
    /\ LET rest == AfterHttpScheme(href)
           run == SubSeq(rest, 1,
                     Cardinality({n \in 1..Len(rest) :
                         \A k \in 1..n : rest[k] \notin WS \cup {"/"}}))
       IN  \E i \in 2..(Len(run) - 1) : run[i] = "."

\* The href test that accepts a URL as it stands.
IsValidHref(href) ==
    \/ MatchesHttpUrl(href)
    \/ StartsWith(href, <<"/">>)
    \/ StartsWith(href, <<"#">>)
    \/ StartsWith(href, <<"m", "a", "i", "l", "t", "o", ":">>)

HttpsPrefix == <<"h", "t", "t", "p", "s", ":", "/", "/">>

\* A repair that prepends plain http://.
RepairHrefHttp(href) == <<"h", "t", "t", "p", ":", "/", "/">> \o href

\* href = 'https://' + href
RepairHref(href) == HttpsPrefix \o href

\* The validation both branches of processChild and extractTextFromContent
\* apply to String(href).trim(): the href to link to, or None to go on to the
\* next mark.
ResolveHref(rawHref) ==
    LET href == Trim(rawHref) IN
    IF IsValidHref(href) THEN href
    ELSE IF href # <<>> /\ ~HasHttpScheme(href) THEN RepairHref(href)
    ELSE None

\* mark.startsWith('link-')
IsLegacyLinkKey(mark) == Len(mark) > 0 /\ mark[1] = "link-"

\* markDefs.find(...): the first markDef with the key (and, where the
\* renderer asks for it, of type 'link'), as a sequence of 0 or 1.
Find(markDefs, key, linksOnly) ==
    LET hits == SelectSeq(markDefs,
                    LAMBDA def : def._key = key /\ (linksOnly => def._type = "link"))
    IN  IF hits = <<>> THEN <<>> ELSE <<hits[1]>>

RECURSIVE LinkHrefFeed(_, _)
\* The for-loop of processChild in rss-feed.js over the marks of one span:
\* the link href to wrap the span in, or None.
LinkHrefFeed(marks, markDefs) ==
    IF marks = <<>> THEN None
    ELSE LET mark == Head(marks)
             linkDef == Find(markDefs, mark, TRUE)
             isLinkMark == mark # <<>> /\ (IsLegacyLinkKey(mark) \/ linkDef # <<>>)
             href == IF isLinkMark /\ linkDef # <<>> /\ linkDef[1].href # None
                     THEN ResolveHref(linkDef[1].href) ELSE None
         IN  IF href # None THEN href
             ELSE LinkHrefFeed(Tail(marks), markDefs)

RECURSIVE LinkHrefBuild(_, _)
\* The same loop in generate-rss.js: only marks that start with 'link-' are
\* looked up, and the markDef is found by key alone.
LinkHrefBuild(marks, markDefs) ==
    IF marks = <<>> THEN None
    ELSE LET mark == Head(marks)
             linkDef == Find(markDefs, mark, FALSE)
             href == IF mark # <<>> /\ IsLegacyLinkKey(mark)
                        /\ linkDef # <<>> /\ linkDef[1].href # None
                     THEN ResolveHref(linkDef[1].href) ELSE None
         IN  IF href # None THEN href
             ELSE LinkHrefBuild(Tail(marks), markDefs)

RECURSIVE ApplyStyleMarks(_, _)
\* marks.forEach: strong, em and code wrap the text, in mark order.
ApplyStyleMarks(marks, tokens) ==
    IF marks = <<>> THEN tokens
    ELSE LET mark == Head(marks)
             wrapped == IF ~IsLegacyLinkKey(mark)
                           /\ mark \in {<<"strong">>, <<"em">>, <<"code">>}
                        THEN Wrap(mark[1], tokens) ELSE tokens
         IN  ApplyStyleMarks(Tail(marks), wrapped)

\* processChild(child), given the link href its marks resolve to.
SpanMarkup(child, linkHref) ==
    IF child._type # "span" \/ child.text = <<>> THEN <<>>
    ELSE LET styled == ApplyStyleMarks(child.marks, <<Chars(escapeXmlText(child.text))>>)
         IN  IF linkHref # None
             THEN <<OpenA(EscapeAmp(linkHref))>> \o styled \o <<Close("a")>>
             ELSE styled

\* The link lookup of the named renderer.
LinkHrefOf(renderer, marks, markDefs) ==
    IF renderer = "rss-feed" THEN LinkHrefFeed(marks, markDefs)
    ELSE LinkHrefBuild(marks, markDefs)

processChild(renderer, child, markDefs) ==
    SpanMarkup(child, LinkHrefOf(renderer, child.marks, markDefs))

RECURSIVE Flatten(_)
\* parts.join('')
Flatten(parts) == IF parts = <<>> THEN <<>> ELSE Head(parts) \o Flatten(Tail(parts))

RECURSIVE JoinWith(_, _)
\* parts.join(sep)
JoinWith(parts, sep) ==
    IF parts = <<>> THEN <<>>
    ELSE IF Len(parts) = 1 THEN parts[1]
    ELSE parts[1] \o sep \o JoinWith(Tail(parts), sep)

\* .replace(/&/g, '&amp;').replace(/</g, '&lt;').replace(/>/g, '&gt;')
EscapeText(s) ==
    ReplaceAll(
        ReplaceAll(
            ReplaceAll(s, <<"&">>, <<"&", "a", "m", "p", ";">>),
            <<"<">>, <<"&", "l", "t", ";">>),
        <<">">>, <<"&", "g", "t", ";">>)

\* The same, followed by .replace(/"/g, '&quot;')
EscapeQuoted(s) == ReplaceAll(EscapeText(s), <<"\"">>, <<"&", "q", "u", "o", "t", ";">>)

\* `<a href="${escapedHref}">${escapedText}</a>`
AnchorText(linkHref, text) ==
    <<"<", "a", " ", "h", "r", "e", "f", "=", "\"">> \o EscapeQuoted(linkHref)
    \o <<"\"", ">">> \o EscapeText(text) \o <<"<", "/", "a", ">">>

\* The description text of one span, given the link href its marks resolve to.
SpanText(child, linkHref) ==
    IF linkHref # None THEN AnchorText(linkHref, child.text) ELSE child.text

\* extractTextFromContent(content) for a given link resolution.
ExtractWith(blocks, renderer) ==
    LET textBlocks == SelectSeq(blocks, LAMBDA block : block._type = "block")
        spansOf(block) ==
            SelectSeq(block.children,
                      LAMBDA child : child._type = "span" /\ child.text # <<>>)
        textOf(block) ==
            JoinWith([j \in 1..Len(spansOf(block)) |->
                         SpanText(spansOf(block)[j],
                                  LinkHrefOf(renderer, spansOf(block)[j].marks,
                                             block.markDefs))],
                     <<" ">>)
    IN  JoinWith([i \in 1..Len(textBlocks) |-> textOf(textBlocks[i])], <<" ">>)

\* extractTextFromContent of netlify/functions/rss-feed.js.
extractTextFromContent(blocks) == ExtractWith(blocks, "rss-feed")

\* extractTextFromContent of scripts/generate-rss.js.
extractTextFromContentBuild(blocks) == ExtractWith(blocks, "generate-rss")

DescriptionLimit == 300
DescriptionCut == 297
LastTagFloor == 250

\* truncated.lastIndexOf('</a>') + 1, or 0 when there is none.
LastAnchorEnd(s) ==
    LET hits == {i \in 1..Len(s) : StartsWith(Slice(s, i - 1), <<"<", "/", "a", ">">>)}
    IN  IF hits = {} THEN 0 ELSE CHOOSE i \in hits : \A k \in hits : k <= i

\* The description of a post without excerpt or subheader, cut to the limit.
Description(text) ==
    IF Len(text) > DescriptionLimit
    THEN LET truncated == SubSeq(text, 1, DescriptionCut)
             lastTag == LastAnchorEnd(truncated)
         IN  IF lastTag > LastTagFloor + 1
             THEN SubSeq(truncated, 1, lastTag + 3)
             ELSE truncated \o <<".", ".", ".">>
    ELSE text

ListTag(listType) == IF listType = "bullet" THEN "ul" ELSE "ol"

\* A renderer that leaves every list open.
LeaveOpen(currentListType) == <<>>

\* The htmlParts pushed to close the open list, if any.
CloseList(currentListType) ==
    IF currentListType # "" THEN <<<<Close(ListTag(currentListType))>>>> ELSE <<>>

\* <img src="${escapedUrl}" alt="${escapedAlt}" />
ImgTag(src, alt) == [Open("img") EXCEPT !.src = src, !.alt = alt]

\* The forEach callback of portableTextToHTML: st holds htmlParts and
\* currentListType; processedChildren is children.map(processChild).join('').
RenderBlock(st, block, processedChildren) ==
    IF block._type = "block"
    THEN IF block.listItem # ""
         THEN [htmlParts |->
                   st.htmlParts
                   \o (IF st.currentListType # block.listItem
                       THEN CloseList(st.currentListType)
                            \o <<<<Open(ListTag(block.listItem))>>>>
                       ELSE <<>>)
                   \o <<Wrap("li", processedChildren)>>,
               currentListType |-> block.listItem]
         ELSE [htmlParts |->
                   st.htmlParts \o CloseList(st.currentListType)
                   \o (IF block.style \in Headings \cup {"blockquote"}
                          /\ processedChildren # <<>>
                       THEN <<Wrap(block.style, processedChildren)>>
                       ELSE IF block.style \in {"normal", ""}
                               /\ processedChildren # <<>>
                       THEN <<Wrap("p", processedChildren)>>
                       ELSE <<>>),
               currentListType |-> ""]
    ELSE IF block._type = "image"
    THEN [htmlParts |->
              st.htmlParts \o CloseList(st.currentListType)
              \o (IF block.url # None
                  THEN <<<<ImgTag(EscapeAmp(block.url), escapeXmlText(block.alt))>>>>
                  ELSE <<>>),
          currentListType |-> ""]
    ELSE IF block._type \in {"code", "codeBlock"}
    THEN [htmlParts |->
              st.htmlParts \o CloseList(st.currentListType)
              \o (IF escapeXmlText(block.code) # <<>>
                  THEN <<<<Open("pre"),
                           [Open("code") EXCEPT !.className = block.language],
                           Chars(escapeXmlText(block.code)),
                           Close("code"), Close("pre")>>>>
                  ELSE <<>>),
          currentListType |-> ""]
    ELSE st

RECURSIVE RenderBlocks(_, _, _)
\* content.forEach over the blocks; processed[i] is the joined markup of the
\* children of blocks[i].
RenderBlocks(st, blocks, processed) ==
    IF blocks = <<>> THEN st
    ELSE RenderBlocks(RenderBlock(st, Head(blocks), Head(processed)),
                      Tail(blocks), Tail(processed))

\* portableTextToHTML(content) of the named renderer.
RenderWith(blocks, renderer) ==
    LET processed == [i \in 1..Len(blocks) |->
                         Flatten([j \in 1..Len(blocks[i].children) |->
                             processChild(renderer, blocks[i].children[j],
                                          blocks[i].markDefs)])]
        st == RenderBlocks([htmlParts |-> <<>>, currentListType |-> ""],
                           blocks, processed)
    IN  JoinWith(st.htmlParts \o CloseList(st.currentListType), <<Chars(<<"\n">>)>>)

\* portableTextToHTML of netlify/functions/rss-feed.js.
portableTextToHTML(blocks) == RenderWith(blocks, "rss-feed")

\* portableTextToHTML of scripts/generate-rss.js.
portableTextToHTMLBuild(blocks) == RenderWith(blocks, "generate-rss")

(***************************************************************************)
(* new JSDOM(htmlString): the markup tokens of a renderer parsed back into *)
(* the child nodes of document.body.  Rendered markup is well nested, its  *)
(* only void element is img, and character references in text and          *)
(* attribute values are decoded.                                           *)
(***************************************************************************)
DecodeEntities(s) ==
    ReplaceAll(
        ReplaceAll(
            ReplaceAll(
                ReplaceAll(
                    ReplaceAll(s, <<"&", "l", "t", ";">>, <<"<">>),
                    <<"&", "g", "t", ";">>, <<">">>),
                <<"&", "q", "u", "o", "t", ";">>, <<"\"">>),
            <<"&", "a", "p", "o", "s", ";">>, <<"'">>),
        <<"&", "a", "m", "p", ";">>, <<"&">>)

DecodeAttr(value) == IF value = None THEN None ELSE DecodeEntities(value)

\* The element an opening tag creates, before its children are appended.
ElementOf(token) ==
    [El(token.tag, <<>>) EXCEPT !.href = DecodeAttr(token.href),
                                !.src = DecodeAttr(token.src),
                                !.alt = DecodeAttr(token.alt),
                                !.className = token.className]

RECURSIVE ParseFrom(_, _)
\* The sibling nodes that start at token i, and the index after the closing
\* tag that ends them.
ParseFrom(tokens, i) ==
    IF i > Len(tokens) THEN [nodes |-> <<>>, next |-> i]
    ELSE IF tokens[i].kind = "close" THEN [nodes |-> <<>>, next |-> i + 1]
    ELSE IF tokens[i].kind = "text"
    THEN LET rest == ParseFrom(tokens, i + 1)
         IN  [nodes |-> <<Text(DecodeEntities(tokens[i].text))>> \o rest.nodes,
              next |-> rest.next]
    ELSE IF tokens[i].tag = "img"
    THEN LET rest == ParseFrom(tokens, i + 1)
         IN  [nodes |-> <<ElementOf(tokens[i])>> \o rest.nodes, next |-> rest.next]
    ELSE LET inner == ParseFrom(tokens, i + 1)
             rest == ParseFrom(tokens, inner.next)
         IN  [nodes |-> <<[ElementOf(tokens[i]) EXCEPT !.childNodes = inner.nodes]>>
                        \o rest.nodes,
              next |-> rest.next]

ParseHTML(tokens) == ParseFrom(tokens, 1).nodes

(***************************************************************************)
(* Exported HTML bodies the scripts are run on.                            *)
(***************************************************************************)
P1 == El("p", <<Text(<<"a">>)>>)
PLink == El("p", <<A(<<"/", "p">>, <<Text(<<"g">>)>>)>>)
P2Links ==
    El("p", <<A(<<"/", "p">>, <<Text(<<"u">>)>>), Text(<<" ">>),
              A(<<"/", "q">>, <<Text(<<"v">>)>>)>>)
H1 == El("h1", <<Text(<<"t">>)>>)
Quote == El("blockquote", <<A(<<"/", "q">>, <<Text(<<"k">>)>>), Text(<<" ", "l">>)>>)
UList ==
    El("ul", <<El("li", <<Text(<<"m">>)>>),
               El("li", <<A(<<"/", "p">>, <<Text(<<"n">>)>>)>>)>>)
OList == El("ol", <<El("li", <<Text(<<"o">>)>>)>>)
Image == Img(<<"/", "i", ".", "p", "n", "g">>, <<"p", "i", "c">>)
ImageNoSrc == Img(None, <<>>)
Pre == El("pre", <<Code(<<"js">>, <<Text(<<"x", "=", "1">>)>>)>>)
PreNoLang == El("pre", <<Code(None, <<Text(<<"y">>)>>)>>)
Rule == El("hr", <<>>)
BlankP == El("p", <<Text(<<" ">>)>>)
\* <p>Hello <a href="https://x.com">world</a>!</p>
HelloWorld ==
    El("p", <<Text(<<"H", "e", "l", "l", "o", " ">>),
              A(<<"h", "t", "t", "p", "s", ":", "/", "/", "x", ".", "c", "o", "m">>,
                <<Text(<<"w", "o", "r", "l", "d">>)>>),
              Text(<<"!">>)>>)

PersistElements == {P1, PLink, P2Links, Quote, UList, Image, Pre, Rule}

PersistInputs == SeqsUpTo(PersistElements, MaxBlocks)

(***************************************************************************)
(* Conversion of exported bodies, rendering of the converted document and  *)
(* conversion of the rendered markup.                                      *)
(***************************************************************************)
InlineNodes ==
    {Text(<<"a">>), Text(<<" ">>), Text(<<" ", "b", " ">>), Text(<<"c", "&", "d">>),
     El("strong", <<Text(<<"e">>)>>),
     El("em", <<Text(<<" ", "f">>)>>),
     A(<<"/", "p">>, <<Text(<<"g">>)>>),
     A(None, <<Text(<<"h">>)>>),
     A(<<"/", "q">>, <<>>),
     A(<<"/", "r">>, <<El("strong", <<Text(<<" ", "i", " ">>)>>)>>),
     El("br", <<>>),
     El("span", <<Text(<<"j">>), Text(<<" ">>)>>)}

InlineRuns == SeqsUpTo(InlineNodes, MaxKids)

RichElements ==
    {El(tag, kids) : tag \in {"p", "h2", "blockquote"}, kids \in InlineRuns}
    \cup {El("ol", <<El("li", kids)>>) : kids \in InlineRuns}

SimpleElements ==
    {P1, PLink, P2Links, H1, Quote, UList, OList, Image, ImageNoSrc, Pre,
     PreNoLang, Rule, BlankP, HelloWorld}

\* Bodies without a block element: the whole-container fallback.
BareBodies ==
    {<<Text(<<"a">>)>>,
     <<Text(<<" ">>), El("span", <<Text(<<"b">>)>>), A(<<"/", "p">>, <<Text(<<"c">>)>>)>>,
     <<El("span", <<Text(<<" ">>)>>)>>}

ConvertInputs ==
    {<<element>> : element \in RichElements}
    \cup SeqsUpTo(SimpleElements, MaxBlocks)
    \cup BareBodies

InitConvert ==
    /\ dom \in ConvertInputs
    /\ content = <<>>
    /\ before = <<>>
    /\ ops = <<>>
    /\ now = 0
    /\ record = <<>>
    /\ store = <<>>
    /\ calls = <<>>
    /\ input = <<>>
    /\ drawn = <<>>
    /\ html = <<>>
    /\ desc = <<>>
    /\ title = <<>>
    /\ fileName = <<>>

\* htmlToPortableText of scripts/update-post-formatting.js on the body.
ConvertFormatting ==
    /\ ops = <<>>
    /\ content' = htmlToPortableText(dom)
    /\ ops' = <<"htmlToPortableText">>
    /\ UNCHANGED <<before, now, drawn, dom, html, desc, title, fileName>>
    /\ UNCHANGED <<record, store, calls, input>>

\* htmlToPortableText of scripts/substack-to-json.js on the body.
ConvertSubstack ==
    /\ ops = <<>>
    /\ content' = htmlToPortableTextSubstack(dom)
    /\ ops' = <<"htmlToPortableTextSubstack">>
    /\ UNCHANGED <<before, now, drawn, dom, html, desc, title, fileName>>
    /\ UNCHANGED <<record, store, calls, input>>

\* portableTextToHTML of the feed function on the converted document.
RenderConverted ==
    /\ ops = <<"htmlToPortableText">>
    /\ html' = portableTextToHTML(content)
    /\ ops' = Append(ops, "portableTextToHTML")
    /\ UNCHANGED <<content, before, now, drawn, dom, desc, title, fileName>>
    /\ UNCHANGED <<record, store, calls, input>>

\* htmlToPortableText of scripts/update-post-formatting.js on the rendered
\* markup.
Reconvert ==
    /\ ops = <<"htmlToPortableText", "portableTextToHTML">>
    /\ before' = content
    /\ content' = htmlToPortableText(ParseHTML(html))
    /\ ops' = Append(ops, "htmlToPortableText")
    /\ UNCHANGED <<now, drawn, dom, html, desc, title, fileName>>
    /\ UNCHANGED <<record, store, calls, input>>

NextConvert == ConvertFormatting \/ ConvertSubstack \/ RenderConverted \/ Reconvert

SpecConvert == InitConvert /\ [][NextConvert]_vars

(***************************************************************************)
(* Rendering of stored posts into feed items: generateRSSXML of            *)
(* netlify/functions/rss-feed.js and of scripts/generate-rss.js, for a     *)
(* post without excerpt or subheader.                                      *)
(***************************************************************************)
HrefManus == <<"h", "t", "t", "p", ":", "/", "/", "M", "a", "n", "u", "s">>
HrefHttps == <<"h", "t", "t", "p", "s", ":", "/", "/", "x", ".", "c", "o", "m">>
HrefPath == <<"h", "t", "t", "p", ":", "/", "/", "a", ".", "b", "/", "c">>
HrefUpper == <<"H", "T", "T", "P", ":", "/", "/", "X", ".", "C", "O", "M">>
HrefNoHost == <<"h", "t", "t", "p", ":", "/", "/", ".", "c", "o", "m">>
HrefNoTld == <<"h", "t", "t", "p", "s", ":", "/", "/", "a", ".">>
HrefSchemeOnly == <<"h", "t", "t", "p", "s", ":", "/", "/">>
HrefBare == <<"e", "x", "a", "m", "p", "l", "e", ".", "c", "o", "m", "/", "p", "o", "s", "t">>
HrefRooted == <<"/", "p">>
HrefFragment == <<"#", "s">>
HrefMailto == <<"m", "a", "i", "l", "t", "o", ":", "a", "@", "b", ".", "c">>
HrefFtp == <<"f", "t", "p", ":", "/", "/", "h", "o", "s", "t", ".", "c", "o", "m", "/", "x">>
HrefScript == <<"j", "a", "v", "a", "s", "c", "r", "i", "p", "t", ":", "a", "l", "e", "r", "t", "(", "1", ")">>
HrefPadded == <<" ", "x", ".", "c", "o", "m", " ">>
HrefQuery == <<"x", ".", "c", "o", "m", "/", "?", "a", "&", "b">>
HrefBlank == <<" ">>

HrefInputs ==
    {HrefManus, HrefHttps, HrefPath, HrefUpper, HrefNoHost, HrefNoTld, HrefSchemeOnly, HrefBare, HrefRooted, HrefFragment, HrefMailto, HrefFtp, HrefScript, HrefPadded, HrefQuery, HrefBlank, None}

\* The two shapes of link keys found in the store.
LegacyKey == LinkKey(0)
OpaqueKey == <<"d29f57cddebc">>
LegacyKey2 == LinkKey(1)
OpaqueKey2 == <<"a1b2c3d4e5f6">>

LinkText == <<"w">>

\* Marks of the linked span around the link key.
MarksAround(key) ==
    {<<key>>, <<<<"strong">>, key>>, <<key, <<"em">>>>, <<<<"code">>, key, <<"strong">>>>}

\* A stored text block with the given spans and markDefs.
Stored(listItem, children, markDefs) ==
    [TextBlock("normal", listItem, children, markDefs) EXCEPT !._key = <<"b1">>]

StoredSpan(text, marks, key) == [Span(text, marks) EXCEPT !._key = key]

\* One linked span, alone or after a plain span, in a paragraph or list item.
OneLinkPosts ==
    {<<Stored(listItem, lead \o <<StoredSpan(LinkText, marks, <<"s2">>)>>,
              <<[LinkDef(key, href) EXCEPT !._type = type]>>)>> :
        listItem \in {"", "bullet"},
        lead \in {<<>>, <<StoredSpan(<<"a", "&", "b">>, <<>>, <<"s1">>)>>},
        marks \in UNION {MarksAround(key) : key \in {LegacyKey, OpaqueKey}},
        key \in {LegacyKey, OpaqueKey},
        href \in HrefInputs,
        type \in {"link", "footnote"}}

\* One span with two link marks of the same shape, each with its markDef.
TwoLinkPosts ==
    {<<Stored("", <<StoredSpan(LinkText, <<keys[1], keys[2]>>, <<"s1">>)>>,
              <<LinkDef(keys[1], first), LinkDef(keys[2], second)>>)>> :
        keys \in {<<LegacyKey, LegacyKey2>>, <<OpaqueKey, OpaqueKey2>>},
        first \in HrefInputs, second \in HrefInputs}

RenderInputs == OneLinkPosts \cup TwoLinkPosts

InitRender ==
    /\ content \in RenderInputs
    /\ before = <<>>
    /\ ops = <<>>
    /\ now = 0
    /\ record = <<>>
    /\ store = <<>>
    /\ calls = <<>>
    /\ input = <<>>
    /\ drawn = <<>>
    /\ dom = <<>>
    /\ html = <<>>
    /\ desc = <<>>
    /\ title = <<>>
    /\ fileName = <<>>

\* The item of the feed function: description and content:encoded.
RenderFeed ==
    /\ ops = <<>>
    /\ desc' = Description(extractTextFromContent(content))
    /\ html' = portableTextToHTML(content)
    /\ ops' = <<"rss-feed">>
    /\ UNCHANGED <<content, before, now, drawn, dom, title, fileName>>
    /\ UNCHANGED <<record, store, calls, input>>

\* The item of the build script: description and content:encoded.
RenderBuild ==
    /\ ops = <<>>
    /\ desc' = Description(extractTextFromContentBuild(content))
    /\ html' = portableTextToHTMLBuild(content)
    /\ ops' = <<"generate-rss">>
    /\ UNCHANGED <<content, before, now, drawn, dom, title, fileName>>
    /\ UNCHANGED <<record, store, calls, input>>

NextRender == RenderFeed \/ RenderBuild

SpecRender == InitRender /\ [][NextRender]_vars

(***************************************************************************)
(* Title resolution and cleanup of scripts/substack-to-json.js.            *)
(***************************************************************************)
\* decodeHtmlEntities(text): the value of a textarea whose innerHTML is text,
\* for the character references found in exported titles.
decodeHtmlEntities(text) ==
    DecodeEntities(ReplaceAll(text, <<"&", "#", "3", "9", ";">>, <<"'">>))

\* title.replace(/^\d+\.?\s*/, '')
StripLeadingNumber(s) ==
    LET digits == RunOf(s, Digits)
        afterDigits == Slice(s, Len(digits))
        afterDot == IF StartsWith(afterDigits, <<".">>) THEN Tail(afterDigits)
                    ELSE afterDigits
    IN  IF digits = <<>> THEN s ELSE TrimStart(afterDot)

RECURSIVE SplitOn(_, _)
\* s.split(sep) for a set of one-character separators: the pieces between
\* consecutive separators, empty pieces included.
SplitOn(s, seps) ==
    LET piece == RunOf(s, {s[i] : i \in 1..Len(s)} \ seps) IN
    IF Len(piece) = Len(s) THEN <<s>>
    ELSE <<piece>> \o SplitOn(Slice(s, Len(piece) + 1), seps)

\* s.split(/\s+/): runs of white space separate the words.
SplitWords(s) ==
    LET pieces == SplitOn(s, WS)
        inner == SelectSeq(SubSeq(pieces, 2, Len(pieces) - 1), LAMBDA w : w # <<>>)
    IN  IF Len(pieces) <= 1 THEN pieces
        ELSE <<pieces[1]>> \o inner \o <<pieces[Len(pieces)]>>

\* word.charAt(0).toUpperCase() + word.slice(1).toLowerCase()
Capitalize(word) ==
    IF word = <<>> THEN <<>> ELSE <<ToUpperChar(word[1])>> \o ToLower(Tail(word))

\* A casing of the later words that leaves them as they are.
KeepWord(word) == word

\* words[i].toLowerCase()
LowerCaseWord(word) == ToLower(word)

cleanTitle(rawTitle) ==
    IF rawTitle = <<>> THEN rawTitle
    ELSE LET trimmed == Trim(StripLeadingNumber(decodeHtmlEntities(rawTitle)))
             words == SplitWords(trimmed)
         IN  IF trimmed = <<>> THEN trimmed
             ELSE JoinWith([i \in 1..Len(words) |->
                               IF i = 1 THEN Capitalize(words[i])
                               ELSE LowerCaseWord(words[i])],
                           <<" ">>)

\* Index of the last occurrence of character c in s, or 0.
LastIndexOfChar(s, c) ==
    LET hits == {i \in 1..Len(s) : s[i] = c}
    IN  IF hits = {} THEN 0 ELSE CHOOSE i \in hits : \A k \in hits : k <= i

\* path.basename(fileName, path.extname(fileName))
BaseName(name) ==
    LET file == Slice(name, LastIndexOfChar(name, "/"))
        dot == LastIndexOfChar(file, ".")
    IN  IF dot <= 1 THEN file ELSE SubSeq(file, 1, dot - 1)

\* decodeURIComponent throws a URIError: a '%' that does not start an escape.
RECURSIVE MalformedURI(_)
MalformedURI(s) ==
    IF s = <<>> THEN FALSE
    ELSE IF Head(s) = "%"
    THEN ~(Len(s) >= 3 /\ s[2] \in HexDigits /\ s[3] \in HexDigits)
         \/ MalformedURI(Slice(s, 3))
    ELSE MalformedURI(Tail(s))

\* decodeURIComponent(s) for the escape found in exported file names.
decodeURIComponent(s) == ReplaceAll(s, <<"%", "2", "0">>, <<" ">>)

\* The title taken from the file name when the HTML holds none.
FileTitle(name) ==
    LET baseName == BaseName(name)
        spaced(s) == Trim(ReplaceAll(ReplaceAll(s, <<"-">>, <<" ">>), <<"_">>, <<" ">>))
    IN  IF MalformedURI(baseName) THEN spaced(baseName)
        ELSE LET words == SplitOn(spaced(decodeURIComponent(baseName)), {" "})
             IN  JoinWith([i \in 1..Len(words) |-> Capitalize(words[i])], <<" ">>)

UntitledPost == <<"U", "n", "t", "i", "t", "l", "e", "d", " ", "P", "o", "s", "t">>

\* The title parseSubstackHTML resolves before cleaning it: the title found in
\* the HTML, else the one from the file name, else the default.
ResolveTitle(found, name) ==
    LET fromFile == IF found = <<>> /\ name # <<>> THEN FileTitle(name) ELSE found
    IN  IF fromFile = <<>> THEN UntitledPost ELSE fromFile

TitleChars == {"1", ".", " ", "a", "B", "'"}

YearsAgoFile == <<"1", "4", "8", "8", "6", "2", "6", "8", "1", ".", "y", "e", "a", "r", "s", "-", "a", "g", "o", "-", "w", "h", "e", "n", "-", "i", "-", "w", "o", "r", "k", "e", "d", ".", "h", "t", "m", "l">>

TitleInputs ==
    SeqsUpTo(TitleChars, MaxTitle)
    \cup {<<"1", "4", "8", "8", "2", "8", "0", "9", "2", ".", "s", "h", "i", "p", "s", " ", "I", "n", " ", "T", "h", "e", " ", "N", "i", "g", "h", "t">>,
          <<"w", "h", "a", "t", " ", "I", "t", "&", "#", "3", "9", ";", "s", " ", "L", "I", "K", "E">>,
          <<"1", "2", " ", "Q", "&", "a", "m", "p", ";", "A", " ", " ", "i", "t", "'", "s">>}

FileInputs ==
    {<<>>, YearsAgoFile,
     <<"p", "o", "s", "t", "s", "/", "1", "2", ".", "i", "t", "'", "s", "_", "o", "k", ".", "h", "t", "m", "l">>,
     <<"a", "%", "2", "0", "b", "-", "-", "c", ".", "h", "t", "m", "l">>,
     <<"5", "0", "%", "_", "o", "f", "f", ".", "h", "t", "m", "l">>,
     <<".", "h", "t", "m", "l">>}

\* cleanTitle applied to the title.
CleanTitle ==
    /\ Len(ops) < MaxRuns
    /\ before' = title
    /\ title' = cleanTitle(title)
    /\ ops' = Append(ops, "cleanTitle")
    /\ UNCHANGED <<content, now, drawn, dom, html, desc, fileName>>
    /\ UNCHANGED <<record, store, calls, input>>

(***************************************************************************)
(* Dates of scripts/substack-to-json.js.  An instant is a day number since *)
(* 1970-01-01, a second of that day and a millisecond, so that no number   *)
(* exceeds the 32-bit range; numbers read from text are kept as digit      *)
(* strings until they are divided into days and seconds.                   *)
(***************************************************************************)
DigitChars == <<"0", "1", "2", "3", "4", "5", "6", "7", "8", "9">>

DigitVal(c) == (CHOOSE i \in 1..10 : DigitChars[i] = c) - 1

IsDigits(s) == \A i \in 1..Len(s) : s[i] \in Digits

RECURSIVE NatOf(_)
\* The value of a short digit string.
NatOf(digits) ==
    IF digits = <<>> THEN 0
    ELSE NatOf(SubSeq(digits, 1, Len(digits) - 1)) * 10 + DigitVal(digits[Len(digits)])

RECURSIVE DigitsOf(_)
\* n.toString() of a natural number.
DigitsOf(n) ==
    IF n < 10 THEN <<DigitChars[n + 1]>> ELSE DigitsOf(n \div 10) \o <<DigitChars[(n % 10) + 1]>>

\* String(n).padStart(width, '0')
Pad(n, width) ==
    LET digits == DigitsOf(n)
    IN  [i \in 1..(width - Len(digits)) |-> "0"] \o digits

RECURSIVE StripZeros(_)
\* The digits of the number a digit string denotes: Number(s).toString().
StripZeros(digits) ==
    IF Len(digits) > 1 /\ Head(digits) = "0" THEN StripZeros(Tail(digits)) ELSE digits

\* parseInt(s, 10): the digits of the leading integer of s, or <<>> for NaN.
parseInt(s) ==
    LET run == RunOf(TrimStart(s), Digits)
    IN  IF run = <<>> THEN <<>> ELSE StripZeros(run)

RECURSIVE DivideSeconds(_, _, _)
\* Long division of a digit string of seconds by the seconds of a day.
DivideSeconds(digits, quotient, remainder) ==
    IF digits = <<>> THEN [day |-> quotient, sec |-> remainder]
    ELSE LET n == remainder * 10 + DigitVal(Head(digits))
         IN  DivideSeconds(Tail(digits), quotient * 10 + (n \div 86400),
                           n % 86400)

InvalidDate == [valid |-> FALSE, day |-> 0, sec |-> 0, ms |-> 0]

Instant(day, sec, ms) == [valid |-> TRUE, day |-> day, sec |-> sec, ms |-> ms]

\* new Date(ts) for a number of milliseconds given by its digits.
DateOfMillis(digits) ==
    LET whole == IF Len(digits) > 3 THEN SubSeq(digits, 1, Len(digits) - 3) ELSE <<>>
        part == IF Len(digits) > 3 THEN SubSeq(digits, Len(digits) - 2, Len(digits))
                ELSE digits
        split == DivideSeconds(whole, 0, 0)
    IN  Instant(split.day, split.sec, NatOf(part))

IsLeap(y) == (y % 4 = 0 /\ y % 100 # 0) \/ y % 400 = 0

DaysInMonth(y, m) ==
    IF m = 2 THEN (IF IsLeap(y) THEN 29 ELSE 28)
    ELSE IF m \in {4, 6, 9, 11} THEN 30 ELSE 31

\* Leap years among the years 1 .. y.
LeapsThrough(y) == (y \div 4) - (y \div 100) + (y \div 400)

\* Days from 1970-01-01 to January 1 of year y (y >= 1970).
DaysBeforeYear(y) == 365 * (y - 1970) + LeapsThrough(y - 1) - LeapsThrough(1969)

RECURSIVE DaysBeforeMonth(_, _)
DaysBeforeMonth(y, m) ==
    IF m <= 1 THEN 0 ELSE DaysBeforeMonth(y, m - 1) + DaysInMonth(y, m - 1)

\* Day number of a civil date.
DaysFromCivil(y, m, d) == DaysBeforeYear(y) + DaysBeforeMonth(y, m) + (d - 1)

RECURSIVE YearOfDay(_, _)
\* The year a day number falls in, searching upward from year y.
YearOfDay(day, y) ==
    IF day < DaysBeforeYear(y + 1) THEN y ELSE YearOfDay(day, y + 1)

RECURSIVE MonthOfDay(_, _, _)
MonthOfDay(rest, y, m) ==
    IF rest < DaysInMonth(y, m) THEN m ELSE MonthOfDay(rest - DaysInMonth(y, m), y, m + 1)

\* The civil date of a day number.
CivilFromDays(day) ==
    LET inMonth(y, rest, m) ==
            [year |-> y, month |-> m, date |-> rest - DaysBeforeMonth(y, m) + 1]
        inYear(y, rest) == inMonth(y, rest, MonthOfDay(rest, y, 1))
        ofYear(y) == inYear(y, day - DaysBeforeYear(y))
    IN  ofYear(YearOfDay(day, 1970 + (day \div 146097) * 400 + ((day % 146097) \div 366)))

\* date.toISOString(): YYYY-MM-DDTHH:mm:ss.sssZ
toISOString(date) ==
    LET iso(civil) ==
            Pad(civil.year, 4) \o <<"-">> \o Pad(civil.month, 2) \o <<"-">>
            \o Pad(civil.date, 2) \o <<"T">> \o Pad(date.sec \div 3600, 2) \o <<":">>
            \o Pad((date.sec % 3600) \div 60, 2) \o <<":">> \o Pad(date.sec % 60, 2)
            \o <<".">> \o Pad(date.ms, 3) \o <<"Z">>
    IN  iso(CivilFromDays(date.day))

\* The instant shifted by a number of seconds (east of UTC positive).
Shift(date, seconds) ==
    LET shifted(total) ==
            [date EXCEPT !.day = date.day + (total \div 86400) - 1, !.sec = total % 86400]
    IN  shifted(date.sec + seconds + 86400)

\* date.getFullYear(): the year on the local clock, zone seconds east of UTC.
getFullYear(date, zone) == CivilFromDays(Shift(date, zone).day).year

\* a <= b for two instants.
NotAfter(a, b) ==
    \/ a.day < b.day
    \/ a.day = b.day /\ a.sec < b.sec
    \/ a.day = b.day /\ a.sec = b.sec /\ a.ms <= b.ms

\* The two-, three- or four-digit field of s at offsets from..to, as a number.
Field(s, from, to) == NatOf(SubSeq(s, from, to))

MonthNames == << <<"j", "a", "n">>, <<"f", "e", "b">>, <<"m", "a", "r">>, <<"a", "p", "r">>,
                 <<"m", "a", "y">>, <<"j", "u", "n">>, <<"j", "u", "l">>, <<"a", "u", "g">>,
                 <<"s", "e", "p">>, <<"o", "c", "t">>, <<"n", "o", "v">>, <<"d", "e", "c">> >>

\* The day y-m-d at a second and millisecond, when m and d are a month and a
\* day of a month; a day past the end of its month rolls over.
CivilDate(y, m, d, sec, ms) ==
    IF m \in 1..12 /\ d \in 1..31 THEN Instant(DaysFromCivil(y, m, d), sec, ms)
    ELSE InvalidDate

\* YYYY-MM-DD
IsIsoDate(t) ==
    /\ Len(t) = 10 /\ t[5] = "-" /\ t[8] = "-"
    /\ IsDigits(SubSeq(t, 1, 4)) /\ IsDigits(SubSeq(t, 6, 7)) /\ IsDigits(SubSeq(t, 9, 10))

\* THH:mm:ss.sssZ
IsIsoTime(t) ==
    /\ Len(t) = 14 /\ t[1] = "T" /\ t[4] = ":" /\ t[7] = ":" /\ t[10] = "." /\ t[14] = "Z"
    /\ IsDigits(SubSeq(t, 2, 3)) /\ IsDigits(SubSeq(t, 5, 6))
    /\ IsDigits(SubSeq(t, 8, 9)) /\ IsDigits(SubSeq(t, 11, 13))
    /\ Field(t, 2, 3) < 24 /\ Field(t, 5, 6) < 60 /\ Field(t, 8, 9) < 60

\* "Month D, YYYY" on the local clock.
NamedDate(s, zone) ==
    LET letters == {LowerCase[i] : i \in 1..26} \cup {UpperCase[i] : i \in 1..26}
        month(word) == {i \in 1..12 : Len(word) >= 3 /\ ToLower(SubSeq(word, 1, 3)) = MonthNames[i]}
        built(months, dayRun, yearRun) ==
            IF months # {} /\ Len(dayRun) \in 1..2 /\ Len(yearRun) = 4 /\ IsDigits(yearRun)
            THEN CivilDate(NatOf(yearRun), CHOOSE i \in months : TRUE, NatOf(dayRun),
                           0, 0)
            ELSE InvalidDate
        afterDay(months, dayRun, rest) ==
            built(months, dayRun,
                  IF rest # <<>> /\ Head(rest) = "," THEN TrimStart(Tail(rest)) ELSE <<>>)
        afterWord(months, rest) ==
            afterDay(months, RunOf(rest, Digits), Slice(rest, Len(RunOf(rest, Digits))))
        ofWord(word) == afterWord(month(word), TrimStart(Slice(s, Len(word))))
        local(date) == IF date.valid THEN Shift(date, 0 - zone) ELSE date
    IN  local(ofWord(RunOf(s, letters)))

\* M/D/YYYY on the local clock.
SlashedDate(s, zone) ==
    LET built(parts) ==
            IF /\ Len(parts) = 3
               /\ \A i \in 1..3 : parts[i] # <<>> /\ IsDigits(parts[i])
               /\ Len(parts[1]) <= 2 /\ Len(parts[2]) <= 2 /\ Len(parts[3]) = 4
            THEN CivilDate(NatOf(parts[3]), NatOf(parts[1]), NatOf(parts[2]), 0, 0)
            ELSE InvalidDate
        local(date) == IF date.valid THEN Shift(date, 0 - zone) ELSE date
    IN  local(built(SplitOn(s, {"/"})))

\* new Date(s) on a clock zone seconds east of UTC, for the forms the inputs
\* take: YYYY, YYYY-MM-DD and YYYY-MM-DDTHH:mm:ss.sssZ are read as UTC;
\* M/D/YYYY and "Month D, YYYY" are read on the local clock; a string of ten
\* or more digits, or any other text, is an Invalid Date.
NewDate(s, zone) ==
    IF Len(s) = 4 /\ IsDigits(s) THEN CivilDate(NatOf(s), 1, 1, 0, 0)
    ELSE IF IsIsoDate(s)
    THEN CivilDate(Field(s, 1, 4), Field(s, 6, 7), Field(s, 9, 10), 0, 0)
    ELSE IF Len(s) = 24 /\ IsIsoDate(SubSeq(s, 1, 10)) /\ IsIsoTime(SubSeq(s, 11, 24))
    THEN CivilDate(Field(s, 1, 4), Field(s, 6, 7), Field(s, 9, 10),
                   Field(s, 12, 13) * 3600 + Field(s, 15, 16) * 60 + Field(s, 18, 19),
                   Field(s, 21, 23))
    ELSE IF \E i \in 1..Len(s) : s[i] = "/" THEN SlashedDate(s, zone)
    ELSE NamedDate(s, zone)

\* new Date(ts) for the digits of a number of milliseconds; beyond 8.64e15 the
\* date is invalid.
DateOfTimestamp(digits) ==
    IF Len(digits) > 15 THEN InvalidDate ELSE DateOfMillis(digits)

\* timestamp.toString().length === 10 ? timestamp * 1000 : timestamp
Milliseconds(timestamp) ==
    IF Len(timestamp) = 10 THEN timestamp \o <<"0", "0", "0">> ELSE timestamp

\* A year test that admits the years 2000 and 2100 themselves.
ReasonableYearInclusive(date, zone) ==
    date.valid /\ getFullYear(date, zone) >= 2000 /\ getFullYear(date, zone) <= 2100

\* date.getFullYear() > 2000 && date.getFullYear() < 2100
ReasonableYear(date, zone) ==
    LET reasonable(year) == year > 2000 /\ year < 2100
    IN  date.valid /\ reasonable(getFullYear(date, zone))

\* first || second
OrElse(first, second) == IF first # None THEN first ELSE second

\* The ISO string of a date when cond holds of it and it is valid.
IsoIf(date, cond) == IF date.valid /\ cond THEN toISOString(date) ELSE None

\* The ISO string of the timestamp a digit string spells, when its year is
\* a reasonable one.
StampDate(timestamp, zone) ==
    LET iso(date) == IsoIf(date, ReasonableYear(date, zone))
    IN  IF timestamp = <<>> THEN None ELSE iso(DateOfTimestamp(Milliseconds(timestamp)))

\* parseDate(dateString): the ISO string, or None for null.  The last stage of
\* the code parses the same string with new Date again, which has already
\* failed, so it yields nothing.
parseDate(dateString, zone) ==
    LET parsed(s) == OrElse(IsoIf(NewDate(s, zone), TRUE), StampDate(parseInt(s), zone))
    IN  IF dateString = <<>> THEN None ELSE parsed(Trim(dateString))

\* extractDateFromFilename(fileName)
extractDateFromFilename(name, zone) ==
    LET dated(i) ==
            /\ i + 9 <= Len(name)
            /\ IsDigits(SubSeq(name, i, i + 3)) /\ name[i + 4] \in {"-", "_"}
            /\ IsDigits(SubSeq(name, i + 5, i + 6)) /\ name[i + 7] \in {"-", "_"}
            /\ IsDigits(SubSeq(name, i + 8, i + 9))
        at(i) == IsoIf(NewDate(SubSeq(name, i, i + 3) \o <<"-">>
                               \o SubSeq(name, i + 5, i + 6) \o <<"-">>
                               \o SubSeq(name, i + 8, i + 9), zone), TRUE)
        first(hits) == IF hits = {} THEN None
                       ELSE at(CHOOSE i \in hits : \A k \in hits : i <= k)
        stamp(run) ==
            IF Len(run) >= 10
            THEN StampDate(StripZeros(SubSeq(run, 1, IF Len(run) > 13 THEN 13 ELSE Len(run))),
                           zone)
            ELSE None
    IN  IF name = <<>> THEN None
        ELSE OrElse(first({i \in 1..Len(name) : dated(i)}), stamp(RunOf(name, Digits)))

(***************************************************************************)
(* parseSubstackHTML of scripts/substack-to-json.js.  The document is the  *)
(* meta title (title), the children of its body (dom) and, in input, what  *)
(* its other queries yield: the text of <title>, the datePublished strings *)
(* of its JSON-LD scripts, the date values of the elements the date        *)
(* selectors find, the excerpt and the image address.  input also holds    *)
(* the date index, the clock and its zone.                                 *)
(***************************************************************************)

\* slugify(text)
slugify(text) ==
    LET RECURSIVE Dashed(_)
        Dashed(s) ==
            IF s = <<>> THEN <<>>
            ELSE IF Head(s) \in WS
            THEN <<"-">> \o Dashed(Slice(s, Len(RunOf(s, WS))))
            ELSE <<Head(s)>> \o Dashed(Tail(s))
        RECURSIVE Collapsed(_)
        Collapsed(s) ==
            IF s = <<>> THEN <<>>
            ELSE IF Head(s) = "-"
            THEN <<"-">> \o Collapsed(Slice(s, Len(RunOf(s, {"-"}))))
            ELSE <<Head(s)>> \o Collapsed(Tail(s))
        RECURSIVE TrimDashes(_)
        TrimDashes(s) ==
            IF s # <<>> /\ Head(s) = "-" THEN TrimDashes(Tail(s))
            ELSE IF s # <<>> /\ s[Len(s)] = "-" THEN TrimDashes(SubSeq(s, 1, Len(s) - 1))
            ELSE s
        word(c) == IsLetter(c) \/ c \in Digits \/ c \in {"_", "-"}
    IN  TrimDashes(Collapsed(SelectSeq(Dashed(Trim(ToLower(text))), word)))

\* The title the HTML yields: the meta title, else the first h1 of the body,
\* else <title>, each of the latter two cut at its first '|' and trimmed.
\* (The texts hold no line break, so /\s*\|\s*.*$/ cuts to the end.)
HtmlTitle(meta, bodyNodes, docTitle) ==
    LET cut(s) == Trim(RunOf(s, {s[i] : i \in 1..Len(s)} \ {"|"}))
        headings == querySelectorAll(El("body", bodyNodes), "h1")
        heading == IF headings = <<>> THEN <<>> ELSE cut(getTextContent(headings[1]))
    IN  IF meta # <<>> THEN decodeHtmlEntities(meta)
        ELSE IF heading # <<>> THEN heading
        ELSE cut(Trim(docTitle))

\* postsCSV.get(key): the date last stored under key, or None.
IndexGet(csv, key) ==
    LET last(hits) == IF hits = {} THEN None
                      ELSE csv[CHOOSE i \in hits : \A k \in hits : k <= i][2]
    IN  last({i \in 1..Len(csv) : csv[i][1] = key})

\* The date the index holds for a file: by base name, by base name without
\* its leading digits, by "<digits>.<rest>".
IndexDate(csv, name) ==
    LET has(key) == \E i \in 1..Len(csv) : csv[i][1] = key
        split(digits, slugPart) ==
            IF slugPart # <<>> /\ has(slugPart) THEN IndexGet(csv, slugPart)
            ELSE IF digits # <<>> /\ slugPart # <<>>
            THEN IndexGet(csv, digits \o <<".">> \o slugPart)
            ELSE None
        lookup(baseName) ==
            IF has(baseName) THEN IndexGet(csv, baseName)
            ELSE split(RunOf(baseName, Digits), Slice(baseName, Len(RunOf(baseName, Digits))))
    IN  IF name = <<>> \/ csv = <<>> THEN None ELSE lookup(BaseName(name))

RECURSIVE FirstParsed(_, _)
\* The first of the candidate strings that parseDate accepts.
FirstParsed(candidates, zone) ==
    IF candidates = <<>> THEN None
    ELSE OrElse(parseDate(Head(candidates), zone), FirstParsed(Tail(candidates), zone))

\* The end of the match of a date pattern of the body scan that starts at
\* offset i of the text, or 0:
\*   1  /\b(\d{4})-(\d{2})-(\d{2})\b/
\*   2  /\b([A-Za-z]+)\s+(\d{1,2}),\s+(\d{4})\b/
\*   3  /\b(\d{1,2})\/(\d{1,2})\/(\d{4})\b/
PatternEnd(bodyText, pattern, i) ==
    LET n == Len(bodyText)
        wordAt(k) == k \in 1..n /\ (IsLetter(bodyText[k]) \/ bodyText[k] \in Digits
                                    \/ bodyText[k] = "_")
        digitsAt(k, len) == k + len - 1 <= n /\ IsDigits(SubSeq(bodyText, k, k + len - 1))
        is(k, c) == k \in 1..n /\ bodyText[k] = c
        runAt(k, cs) == Len(RunOf(Slice(bodyText, k - 1), cs))
        letters == {LowerCase[k] : k \in 1..26} \cup {UpperCase[k] : k \in 1..26}
        named4(comma, year) ==
            IF is(comma, ",") /\ year > comma + 1 /\ digitsAt(year, 4) /\ ~wordAt(year + 4)
            THEN year + 3 ELSE 0
        named3(day, comma) ==
            IF comma - day \in 1..2 THEN named4(comma, comma + 1 + runAt(comma + 1, WS))
            ELSE 0
        named2(afterName, day) ==
            IF day > afterName THEN named3(day, day + runAt(day, Digits)) ELSE 0
        named1(afterName) ==
            IF afterName > i THEN named2(afterName, afterName + runAt(afterName, WS)) ELSE 0
        slashed2(slash1, slash2) ==
            IF /\ slash2 - slash1 - 1 \in 1..2 /\ is(slash2, "/")
               /\ digitsAt(slash2 + 1, 4) /\ ~wordAt(slash2 + 5)
            THEN slash2 + 4 ELSE 0
        slashed1(slash1) ==
            IF slash1 - i \in 1..2 /\ is(slash1, "/")
            THEN slashed2(slash1, slash1 + 1 + runAt(slash1 + 1, Digits)) ELSE 0
    IN  IF wordAt(i - 1) THEN 0
        ELSE IF pattern = 1
        THEN (IF /\ digitsAt(i, 4) /\ is(i + 4, "-") /\ digitsAt(i + 5, 2)
                 /\ is(i + 7, "-") /\ digitsAt(i + 8, 2) /\ ~wordAt(i + 10)
              THEN i + 9 ELSE 0)
        ELSE IF pattern = 2 THEN named1(i + runAt(i, letters))
        ELSE slashed1(i + runAt(i, Digits))

\* bodyText.match(pattern): the first match, or <<>>.
PatternMatch(bodyText, pattern) ==
    LET at(i) == SubSeq(bodyText, i, PatternEnd(bodyText, pattern, i))
        first(hits) == IF hits = {} THEN <<>>
                       ELSE at(CHOOSE i \in hits : \A k \in hits : i <= k)
    IN  first({i \in 1..Len(bodyText) : PatternEnd(bodyText, pattern, i) > 0})

\* The date found by scanning the text of the body for a date pattern: the
\* first match of the first pattern whose match parses to a date from
\* 2000-01-01 up to now.
BodyTextDate(bodyText, today, zone) ==
    LET inRange(date) ==
            /\ date.valid /\ NotAfter(date, today)
            /\ NotAfter(Instant(DaysFromCivil(2000, 1, 1), 0, 0), date)
        checked(parsed) ==
            IF parsed # None /\ inRange(NewDate(parsed, zone)) THEN parsed ELSE None
        accepted(pattern) == checked(parseDate(PatternMatch(bodyText, pattern), zone))
    IN  OrElse(accepted(1), OrElse(accepted(2), accepted(3)))

\* calculateReadTime(content): the number of minutes.
calculateReadTime(blocks) ==
    LET words(block) ==
            IF block._type = "block"
            THEN [i \in 1..Len(block.children) |->
                    IF block.children[i]._type = "span"
                    THEN Len(SelectSeq(SplitOn(block.children[i].text, WS),
                                       LAMBDA w : w # <<>>))
                    ELSE 0]
            ELSE <<>>
        RECURSIVE Sum(_)
        Sum(ns) == IF ns = <<>> THEN 0 ELSE Head(ns) + Sum(Tail(ns))
        wordCount == Sum([i \in 1..Len(blocks) |-> Sum(words(blocks[i]))])
        minutes == (wordCount + 199) \div 200
    IN  IF minutes < 1 THEN 1 ELSE minutes

\* The text of the spans of a block joined by spaces.
BlockText(block) ==
    LET joined(spans) == JoinWith([i \in 1..Len(spans) |-> spans[i].text], <<" ">>)
    IN  joined(SelectSeq(block.children, LAMBDA c : c.text # <<>>))

\* A cascade that asks JSON-LD and the selectors before the index and the
\* file name.
PublishedAtDocumentFirst(bodyNodes, name, given) ==
    OrElse(FirstParsed(given.jsonLd, given.zone),
    OrElse(FirstParsed(given.elements, given.zone),
    OrElse(IndexDate(given.csv, name),
    OrElse(extractDateFromFilename(name, given.zone),
    OrElse(BodyTextDate(textContentOf(bodyNodes), given.today, given.zone),
           toISOString(given.today))))))

\* The publishedAt of parseSubstackHTML: the first source that yields a date.
PublishedAt(bodyNodes, name, given) ==
    OrElse(IndexDate(given.csv, name),
    OrElse(extractDateFromFilename(name, given.zone),
    OrElse(FirstParsed(given.jsonLd, given.zone),
    OrElse(FirstParsed(given.elements, given.zone),
    OrElse(BodyTextDate(textContentOf(bodyNodes), given.today, given.zone),
           toISOString(given.today))))))

\* The text of the first heading block of the content, for a post whose
\* title is still the default; else the title.
HeadingTitle(resolved, blocks) ==
    LET text(headings) == IF headings = <<>> THEN <<>> ELSE Trim(BlockText(headings[1]))
        replaced(headingText) == IF headingText # <<>> THEN headingText ELSE resolved
    IN  IF resolved = UntitledPost /\ blocks # <<>>
        THEN replaced(text(SelectSeq(blocks, LAMBDA b : /\ b._type = "block"
                                                        /\ b.style \in {"h1", "h2", "h3", "h4"}
                                                        /\ b.children # <<>>)))
        ELSE resolved

\* The excerpt of the record: the one found, else the text of the first block.
Excerpt(found, blocks) ==
    LET first(texts) == IF texts # <<>> /\ texts[1].children # <<>>
                        THEN BlockText(texts[1]) ELSE found
        cut(excerpt) == SubSeq(excerpt, 1, IF Len(excerpt) > 200 THEN 200 ELSE Len(excerpt))
    IN  cut(IF found = <<>> THEN first(SelectSeq(blocks, LAMBDA b : b._type = "block"))
            ELSE found)

\* The record parseSubstackHTML returns.
parseSubstackHTML(meta, bodyNodes, name, given) ==
    LET built(cleanedTitle, blocks) ==
            [title |-> cleanedTitle,
             slug |-> slugify(cleanedTitle),
             publishedAt |-> PublishedAt(bodyNodes, name, given),
             excerpt |-> Excerpt(given.excerpt, blocks),
             image |-> given.image,
             readTime |-> calculateReadTime(blocks),
             content |-> blocks]
        titled(resolved, blocks) == built(cleanTitle(HeadingTitle(resolved, blocks)), blocks)
    IN  titled(cleanTitle(ResolveTitle(HtmlTitle(meta, bodyNodes, given.docTitle), name)),
               htmlToPortableTextSubstack(bodyNodes))

\* The clock of a run: 2026-01-01T12:00:00.000Z.
Today == Instant(DaysFromCivil(2026, 1, 1), 43200, 0)

\* A document whose queries other than the titles and the body yield nothing.
PlainInput ==
    [csv |-> <<>>, jsonLd |-> <<>>, elements |-> <<>>, docTitle |-> <<>>,
     excerpt |-> <<>>, image |-> <<>>, today |-> Today, zone |-> 0]

DocTitles ==
    {<<>>, <<"2", "0", "2", "4">>, <<" ", "M", "y", " ", "|", " ", "S", "u", "b">>}

TitleBodies == {<<>>, <<H1>>, <<P1>>, <<El("h2", <<Text(<<"7">>)>>)>>}

InitTitle ==
    /\ title \in TitleInputs
    /\ fileName \in FileInputs
    /\ fileName # <<>> => Len(title) <= 1
    /\ dom \in TitleBodies
    /\ input \in {[PlainInput EXCEPT !.docTitle = t] : t \in DocTitles}
    /\ (dom # <<>> \/ input.docTitle # <<>>) => title = <<>>
    /\ before = <<>>
    /\ ops = <<>>
    /\ now = 0
    /\ record = <<>>
    /\ store = <<>>
    /\ calls = <<>>
    /\ drawn = <<>>
    /\ content = <<>>
    /\ html = <<>>
    /\ desc = <<>>

\* parseSubstackHTML(htmlContent, fileName, postsCSV)
ParseSubstackHTML ==
    /\ ops = <<>>
    /\ before' = title
    /\ record' = parseSubstackHTML(title, dom, fileName, input)
    /\ title' = record'.title
    /\ ops' = <<"parseSubstackHTML">>
    /\ UNCHANGED <<content, now, drawn, dom, html, desc, fileName, store, calls, input>>

NextTitle == ParseSubstackHTML \/ CleanTitle

SpecTitle == InitTitle /\ [][NextTitle]_vars

(***************************************************************************)
(* Dates of extracted posts: parseSubstackHTML over file names, date       *)
(* indexes and documents that carry a date in one of the sources.          *)
(***************************************************************************)
SecondsFile == <<"1", "7", "0", "0", "0", "0", "0", "0", "0", "0", ".", "p", ".", "h", "t", "m",
    "l">>
MillisFile == <<"1", "7", "0", "0", "0", "0", "0", "0", "0", "0", "0", "0", "0", ".", "p", ".",
    "h", "t", "m", "l">>
Year2100File == <<"4", "1", "0", "2", "4", "4", "4", "8", "0", "0", ".", "p", ".", "h", "t", "m",
    "l">>
Eve2100File == <<"4", "1", "0", "2", "4", "4", "4", "7", "9", "9", ".", "p", ".", "h", "t", "m",
    "l">>
ZeroLedFile == <<"0", "9", "4", "6", "6", "8", "4", "8", "0", "0", ".", "p", ".", "h", "t", "m",
    "l">>
TwelveDigitFile == <<"9", "9", "9", "9", "9", "9", "9", "9", "9", "9", "9", "9", ".", "p", ".",
    "h", "t", "m", "l">>
MyPostFile == <<"2", "2", "0", ".", "m", "y", "-", "p", "o", "s", "t", ".", "h", "t", "m", "l">>

DateFiles ==
    {<<>>, <<"p", ".", "h", "t", "m", "l">>, SecondsFile, MillisFile, Year2100File, Eve2100File,
        ZeroLedFile,
     TwelveDigitFile, MyPostFile, <<"9", "7", "8", "3", "0", "7", "2", "0", "0", ".", "p", ".",
         "h", "t", "m", "l">>, <<"a", "_", "2", "0", "2", "3", "-", "1", "1", "_", "1", "4", ".",
             "h", "t", "m", "l">>,
     <<"2", "0", "2", "3", "-", "1", "3", "-", "4", "5", ".", "h", "t", "m", "l">>}

ShortDate == <<"2", "0", "2", "3", "-", "1", "1", "-", "1", "4">>
SecondsText == <<"1", "7", "0", "0", "0", "0", "0", "0", "0", "0">>
SecondsInstant == <<"2", "0", "2", "3", "-", "1", "1", "-", "1", "4", "T", "2", "2", ":", "1", "3",
    ":", "2", "0", ".", "0", "0", "0", "Z">>

DateIndexes ==
    {<<>>,
     << <<<<"2", "2", "0", ".", "m", "y", "-", "p", "o", "s", "t">>, ShortDate>>, <<<<"m", "y",
         "-", "p", "o", "s", "t">>, ShortDate>> >>,
     << <<<<"2", "2", "0", ".", "m", "y", "-", "p", "o", "s", "t">>, SecondsInstant>>, <<<<"m",
         "y", "-", "p", "o", "s", "t">>, SecondsInstant>> >>,
     << <<<<"p">>, <<"1", "1", "/", "1", "4", "/", "2", "0", "2", "3">>>> >>}

DateCandidates ==
    {<<>>, <<SecondsText>>, <<<<"s", "o", "o", "n">>, <<" ", "2", "0", "2", "3", "-", "1", "1",
        "-", "1", "4", " ">>>>, <<<<"1", "7", "0", "0", "0", "0", "0", "0", "0", "0", "0", "0",
            "0">>>>,
     <<<<"1", "1", "/", "1", "4", "/", "2", "0", "2", "3">>>>, <<<<"4", "1", "0", "2", "4", "4",
         "4", "8", "0", "0">>, <<"N", "o", "v", "e", "m", "b", "e", "r", " ", "1", "4", ",", " ",
             "2", "0", "2", "3">>>>}

DateBodies ==
    {<<P1>>,
     <<El("p", <<Text(<<"o", "n", " ", "2", "0", "2", "3", "-", "1", "1", "-", "1", "4",
         ".">>)>>)>>,
     <<El("p", <<Text(<<"x", "2", "0", "2", "3", "-", "1", "1", "-", "1", "4", " ", "N", "o", "v",
         " ", "4", ",", " ", "2", "0", "2", "3">>)>>)>>,
     <<El("p", <<Text(<<"2", "0", "3", "0", "-", "0", "1", "-", "0", "1", " ", "a", "n", "d", " ",
         "1", "/", "5", "/", "2", "0", "2", "1">>)>>)>>,
     <<El("p", <<Text(<<"1", "2", "/", "3", "1", "/", "1", "9", "9", "9">>)>>)>>}

Zones == {0, 0 - 18000, 19800}

InitDate ==
    /\ title = <<"a">>
    /\ fileName \in DateFiles
    /\ dom \in DateBodies
    /\ input \in {[PlainInput EXCEPT !.csv = csv, !.jsonLd = candidates[1],
                                     !.elements = candidates[2], !.zone = zone] :
                    csv \in DateIndexes, zone \in Zones,
                    candidates \in (DateCandidates \X {<<>>}) \cup ({<<>>} \X DateCandidates)}
    /\ before = <<>>
    /\ ops = <<>>
    /\ now = 0
    /\ record = <<>>
    /\ store = <<>>
    /\ calls = <<>>
    /\ drawn = <<>>
    /\ content = <<>>
    /\ html = <<>>
    /\ desc = <<>>

NextDate == ParseSubstackHTML

SpecDate == InitDate /\ [][NextDate]_vars

(***************************************************************************)
(* processFile of scripts/update-post-formatting.js: the body of one       *)
(* exported file is converted and keyed before it is patched into the      *)
(* matched post.                                                           *)
(***************************************************************************)
\* A stored post as the update script fetches it: _id, title, slug.current.
Post(id, postTitle, slug) == [_id |-> id, title |-> postTitle, slug |-> slug, content |-> <<>>]

\* extractSlugFromFilename(fileName)
extractSlugFromFilename(name) ==
    LET joined(baseName, digits) ==
            IF /\ digits # <<>>
               /\ Len(baseName) > Len(digits) + 1
               /\ baseName[Len(digits) + 1] = "."
            THEN digits \o Slice(baseName, Len(digits) + 1)
            ELSE baseName
        ofBase(baseName) == joined(baseName, RunOf(baseName, Digits))
    IN  ofBase(BaseName(name))

\* title.toLowerCase().trim().replace(/\s+/g, ' ')
NormalizeTitle(s) == JoinWith(SplitWords(Trim(ToLower(s))), <<" ">>)

\* postsBySlug.get(key): the index in the store of the post last set under
\* the key, or 0.
PostBySlug(posts, key) ==
    LET last(hits) == IF hits = {} THEN 0 ELSE CHOOSE i \in hits : \A k \in hits : k <= i
    IN  last({i \in 1..Len(posts) : posts[i].slug # None /\ ToLower(posts[i].slug) = key})

\* postsByTitle.get(key)
PostByTitle(posts, key) ==
    LET last(hits) == IF hits = {} THEN 0 ELSE CHOOSE i \in hits : \A k \in hits : k <= i
    IN  last({i \in 1..Len(posts) :
                posts[i].title # <<>> /\ NormalizeTitle(posts[i].title) = key})

\* A cascade that asks the title index before the slug index.
TitleFirst(bySlug, byStripped, byTitle) ==
    IF byTitle # 0 THEN byTitle ELSE IF bySlug # 0 THEN bySlug ELSE byStripped

\* existingPost: the first of the three lookups that hits.
FirstHit(bySlug, byStripped, byTitle) ==
    IF bySlug # 0 THEN bySlug ELSE IF byStripped # 0 THEN byStripped ELSE byTitle

\* The post processFile matches to a file: the index in the store, or 0.
MatchPost(posts, name, docTitle) ==
    LET cut(s) == Trim(RunOf(s, {s[i] : i \in 1..Len(s)} \ {"|"}))
        titled(found) == IF found # <<>> THEN PostByTitle(posts, NormalizeTitle(found)) ELSE 0
        byTitle == IF docTitle # <<>> THEN titled(cut(decodeHtmlEntities(docTitle))) ELSE 0
        stripped(slug, slugWithoutNumbers) ==
            IF slugWithoutNumbers # slug THEN PostBySlug(posts, ToLower(slugWithoutNumbers))
            ELSE 0
        ofSlug(slug) ==
            FirstHit(PostBySlug(posts, ToLower(slug)),
                     stripped(slug, Slice(slug, Len(RunOf(slug, Digits)))),
                     byTitle)
    IN  ofSlug(extractSlugFromFilename(name))

\* A script that patches in a dry run too.
PatchesAlways(post, dryRun, newContent) ==
    <<[op |-> "patch", id |-> post._id, content |-> newContent]>>

\* The client.patch calls of one file: none in a dry run.
Patches(post, dryRun, newContent) ==
    IF dryRun THEN <<>> ELSE <<[op |-> "patch", id |-> post._id, content |-> newContent]>>

\* The totals of main after a result of processFile.
Counted(totals, result, post) ==
    [totals EXCEPT !.result = result, !.post = post,
                   !.skipCount = @ + (IF result = "skipped" THEN 1 ELSE 0),
                   !.successCount = @ + (IF result = "success" THEN 1 ELSE 0),
                   !.errorCount = @ + (IF result = "error" THEN 1 ELSE 0)]

NoTotals == [result |-> "", post |-> None, skipCount |-> 0, successCount |-> 0, errorCount |-> 0]

\* The store after client.patch(id).set({content}).commit().
Patched(posts, calls1) ==
    [i \in 1..Len(posts) |->
        IF calls1 # <<>> /\ posts[i]._id = calls1[1].id
        THEN [posts[i] EXCEPT !.content = calls1[1].content] ELSE posts[i]]

MyPostFile2 == <<"d", "/", "2", "2", "0", ".", "M", "y", "-", "P", "o", "s", "t", ".", "h", "t",
    "m", "l">>

InitPersist ==
    /\ dom \in PersistInputs
    /\ content = <<>>
    /\ before = <<>>
    /\ ops = <<>>
    /\ now = 0
    /\ record = NoTotals
    /\ store = <<Post(<<"p", "1">>, <<"M", "y", " ", "p", "o", "s", "t">>, <<"2", "2", "0", "m",
        "y", "-", "p", "o", "s", "t">>)>>
    /\ calls = <<>>
    /\ input = [dryRun |-> FALSE, patchFails |-> FALSE]
    /\ drawn = <<>>
    /\ html = <<>>
    /\ desc = <<>>
    /\ title = <<>>
    /\ fileName = MyPostFile2

\* processFile(file, index, total) and the counting of its result by main:
\* the post is matched; portableTextContent = htmlToPortableText(bodyHTML),
\* contentWithKeys = addKeysToContent(portableTextContent); the content is
\* patched into the matched post unless the run is a dry run.
ProcessFile ==
    /\ ops = <<>>
    /\ ops' = <<"processFile">>
    /\ LET existingPost == MatchPost(store, fileName, title)
           portableTextContent == htmlToPortableText(dom)
       IN  IF existingPost = 0
           THEN /\ record' = Counted(record, "skipped", None)
                /\ UNCHANGED <<content, before, now, drawn, calls, store>>
           ELSE /\ \E draws \in DrawsFor(TotalCalls(portableTextContent, FALSE), now) :
                    /\ content' = addKeysToContent(portableTextContent, draws)
                    /\ now' = LastTime(draws, now)
                    /\ drawn' = draws
                /\ before' = portableTextContent
                /\ calls' = calls \o Patches(store[existingPost], input.dryRun, content')
                /\ IF ~input.dryRun /\ input.patchFails
                   THEN /\ record' = Counted(record, "error", store[existingPost]._id)
                        /\ store' = store
                   ELSE /\ record' = Counted(record, "success", store[existingPost]._id)
                        /\ store' = Patched(store, Patches(store[existingPost], input.dryRun,
                                                           content'))
    /\ UNCHANGED <<dom, html, desc, title, fileName, input>>

NextPersist == ProcessFile

SpecPersist == InitPersist /\ [][NextPersist]_vars

(***************************************************************************)
(* The formatting update over stores, file names and titles that exercise  *)
(* the matching of a file to a stored post.                                *)
(***************************************************************************)
StoredPosts ==
    {Post(<<"p", "1">>, <<"O", "t", "h", "e", "r">>, <<"2", "2", "0", "m", "y", "-", "p", "o", "s",
        "t">>),
     Post(<<"p", "2">>, <<"M", "y", " ", " ", "P", "o", "s", "t", " ">>, <<"M", "y", "-", "P", "o",
         "s", "t">>),
     Post(<<"p", "3">>, <<"m", "y", " ", "p", "o", "s", "t">>, None),
     Post(<<"p", "4">>, <<>>, <<"m", "y", "-", "p", "o", "s", "t">>)}

Stores ==
    {<<>>} \cup {<<p>> : p \in StoredPosts}
    \cup {<<pair[1], pair[2]>> : pair \in {x \in StoredPosts \X StoredPosts : x[1] # x[2]}}

UpdateFiles ==
    {<<"2", "2", "0", ".", "m", "y", "-", "p", "o", "s", "t", ".", "h", "t", "m", "l">>,
        MyPostFile2, <<"2", "2", "0", "m", "y", "-", "p", "o", "s", "t", ".", "h", "t", "m", "l">>,
            <<"m", "y", "-", "p", "o", "s", "t", ".", "h", "t", "m", "l">>,
     <<"7", ".", "x", ".", "h", "t", "m", "l">>, <<"2", "2", "0", ".", ".", "h", "t", "m", "l">>}

UpdateTitles == {<<>>, <<"M", "y", " ", "P", "o", "s", "t", " ", "|", " ", "S", "u", "b">>, <<" ",
    "|", " ", "S", "u", "b">>, <<"O", "t", "h", "e", "r">>, <<"n", "o", "p", "e">>}

InitUpdate ==
    /\ dom \in {<<P1>>, <<PLink, Image>>}
    /\ store \in Stores
    /\ fileName \in UpdateFiles
    /\ title \in UpdateTitles
    /\ input \in [dryRun : BOOLEAN, patchFails : BOOLEAN]
    /\ record = NoTotals
    /\ content = <<>>
    /\ before = <<>>
    /\ ops = <<>>
    /\ now = 0
    /\ calls = <<>>
    /\ drawn = <<>>
    /\ html = <<>>
    /\ desc = <<>>

SpecUpdate == InitUpdate /\ [][NextPersist]_vars

(***************************************************************************)
(* Descriptions of long posts: a paragraph whose text runs past the limit  *)
(* of the description, with a link near the place of the cut.              *)
(***************************************************************************)
MaxLead == 300

\* A paragraph of a run of n letters, a linked word and a closing run,
\* after a linked word at its start when early holds.
LongPost(n, early) ==
    <<Stored("",
             (IF early THEN <<StoredSpan(LinkText, <<LegacyKey>>, <<"s0">>)>> ELSE <<>>)
             \o <<StoredSpan([i \in 1..n |-> "x"], <<>>, <<"s1">>),
                  StoredSpan(<<"w", "o", "r", "l", "d">>, <<LegacyKey>>, <<"s2">>),
                  StoredSpan([i \in 1..40 |-> "y"], <<>>, <<"s3">>)>>,
             <<LinkDef(LegacyKey, HrefHttps)>>)>>

LongPosts == {LongPost(n, early) : n \in 200..MaxLead, early \in BOOLEAN}

InitDescription ==
    /\ content \in LongPosts
    /\ before = <<>>
    /\ ops = <<>>
    /\ now = 0
    /\ record = <<>>
    /\ store = <<>>
    /\ calls = <<>>
    /\ input = <<>>
    /\ drawn = <<>>
    /\ dom = <<>>
    /\ html = <<>>
    /\ desc = <<>>
    /\ title = <<>>
    /\ fileName = <<>>

SpecDescription == InitDescription /\ [][NextRender]_vars

(***************************************************************************)
(* Key assignment over arbitrary stored documents.                         *)
(***************************************************************************)
TextA == <<"a">>

SpanU == Span(TextA, <<>>)
SpanK == [Span(TextA, <<<<"strong">>>>) EXCEPT !._key = <<"s1">>]

MarkU == LinkDef(NoKey, <<"/", "p">>)
MarkK == LinkDef(<<"link-", "0">>, <<"/", "p">>)

Keyed(block, key) == [block EXCEPT !._key = key]

\* Stored blocks with every mix of present and missing keys on the block,
\* its spans, its markDefs and (codeBlock) its code object.
BlockInputs ==
    { TextBlock("normal", "", <<SpanU, SpanK>>, <<MarkU>>),
      Keyed(TextBlock("h2", "", <<SpanK, SpanU>>, <<MarkK>>), <<"b1">>),
      TextBlock("normal", "bullet", <<SpanU, SpanU>>, <<>>),
      Keyed(TextBlock("normal", "", <<SpanK>>, <<MarkK, MarkU>>), <<"b1">>),
      Keyed(TextBlock("blockquote", "", <<>>, <<>>), <<"b2">>),
      ImageBlock(<<"/", "i">>, None),
      Keyed(ImageBlock(<<"/", "i">>, None), <<"b1">>),
      CodeBlock(<<"x">>, <<"js">>),
      Keyed(CodeBlock(<<"x">>, <<"js">>), <<"b2">>),
      [Keyed(CodeBlock(<<"x">>, <<"js">>), <<"b2">>) EXCEPT !.codeKey = <<"c1">>],
      \* a non-text block that carries children and markDefs
      [ImageBlock(<<"/", "i">>, None) EXCEPT
          !.children = <<SpanU>>, !.markDefs = <<MarkU>>] }

KeyInputs == SeqsUpTo(BlockInputs, MaxBlocks)

InitKeys ==
    /\ content \in KeyInputs
    /\ before = <<>>
    /\ ops = <<>>
    /\ now = 0
    /\ record = <<>>
    /\ store = <<>>
    /\ calls = <<>>
    /\ input = <<>>
    /\ drawn = <<>>
    /\ dom = <<>>
    /\ html = <<>>
    /\ desc = <<>>
    /\ title = <<>>
    /\ fileName = <<>>

\* One run of addKeysToContent (update-post-formatting.js) over the document.
AddKeys ==
    /\ Len(ops) < MaxRuns
    /\ \E draws \in DrawsFor(TotalCalls(content, FALSE), now) :
        /\ content' = addKeysToContent(content, draws)
        /\ now' = LastTime(draws, now)
        /\ drawn' = draws
    /\ before' = content
    /\ ops' = Append(ops, "addKeysToContent")
    /\ UNCHANGED <<dom, html, desc, title, fileName>>
    /\ UNCHANGED <<record, store, calls, input>>

\* One run of addKeysToContent (import-to-sanity.js) over the document.
AddKeysImport ==
    /\ Len(ops) < MaxRuns
    /\ \E draws \in DrawsFor(TotalCalls(content, TRUE), now) :
        /\ content' = addKeysToContentImport(content, draws)
        /\ now' = LastTime(draws, now)
        /\ drawn' = draws
    /\ before' = content
    /\ ops' = Append(ops, "addKeysToContentImport")
    /\ UNCHANGED <<dom, html, desc, title, fileName>>
    /\ UNCHANGED <<record, store, calls, input>>

NextKeys == AddKeys \/ AddKeysImport

SpecKeys == InitKeys /\ [][NextKeys]_vars

(***************************************************************************)
(* Claims about the key assigner.                                          *)
(***************************************************************************)
IsGenerated(key) == Len(key) = 5 /\ key[2] = "-"

\* C1: key assignment is idempotent: a second run of the same
\* addKeysToContent over the result of a first run returns its argument
\* unchanged, whatever Math.random() and Date.now() yield in the second run.
C1_Idempotent ==
    (Len(ops) = 2 /\ ops[1] = ops[2]) => content = before

\* C1 witness: a second run over a document in which the first run had to
\* generate a block key and a span key.
C1_Witness ==
    /\ Len(ops) = 2 /\ ops[1] = ops[2]
    /\ \E i \in 1..Len(before) :
        /\ IsGenerated(before[i]._key)
        /\ \E j \in 1..Len(before[i].children) :
            IsGenerated(before[i].children[j]._key)

\* Everything of a block, span or markDef except its own _key.
SansKey(x) == [x EXCEPT !._key = NoKey]

KeptOrFilled(old, new) ==
    /\ SansKey(old) = SansKey(new)
    /\ new._key # NoKey
    /\ old._key # NoKey => new._key = old._key

\* C2: key assignment changes nothing but missing keys: same number and
\* order of blocks, spans and markDefs, every key already present is kept,
\* every other field is unchanged.
C2_Frame ==
    (Len(ops) >= 1 /\ ops[Len(ops)] = "addKeysToContent") =>
        /\ Len(content) = Len(before)
        /\ \A i \in 1..Len(before) :
            /\ KeptOrFilled([before[i] EXCEPT !.children = <<>>, !.markDefs = <<>>],
                            [content[i] EXCEPT !.children = <<>>, !.markDefs = <<>>])
            /\ Len(content[i].children) = Len(before[i].children)
            /\ Len(content[i].markDefs) = Len(before[i].markDefs)
            /\ \A j \in 1..Len(before[i].children) :
                IF before[i]._type = "block"
                THEN KeptOrFilled(before[i].children[j], content[i].children[j])
                ELSE content[i].children[j] = before[i].children[j]
            /\ \A m \in 1..Len(before[i].markDefs) :
                KeptOrFilled(before[i].markDefs[m], content[i].markDefs[m])

\* C2 witness: a first run over a block that has a key, one keyed and one
\* unkeyed span.
C2_Witness ==
    /\ ops = <<"addKeysToContent">>
    /\ \E i \in 1..Len(before) :
        /\ before[i]._key # NoKey
        /\ \E j, k \in 1..Len(before[i].children) :
            /\ before[i].children[j]._key = NoKey
            /\ before[i].children[k]._key # NoKey

(***************************************************************************)
(* Claims about the keys of a converted and keyed document.                *)
(***************************************************************************)
Distinct(seq) == \A i, j \in 1..Len(seq) : i # j => seq[i] # seq[j]

BlockKeys(blocks) == [i \in 1..Len(blocks) |-> blocks[i]._key]

SpanKeys(blocks) ==
    Flatten([i \in 1..Len(blocks) |->
        [j \in 1..Len(blocks[i].children) |-> blocks[i].children[j]._key]])

MarkDefKeysOf(block) == [m \in 1..Len(block.markDefs) |-> block.markDefs[m]._key]

MarkDefKeys(blocks) == Flatten([i \in 1..Len(blocks) |-> MarkDefKeysOf(blocks[i])])

AllKeyed(blocks) ==
    /\ \A i \in 1..Len(BlockKeys(blocks)) : BlockKeys(blocks)[i] # NoKey
    /\ \A i \in 1..Len(SpanKeys(blocks)) : SpanKeys(blocks)[i] # NoKey
    /\ \A i \in 1..Len(MarkDefKeys(blocks)) : MarkDefKeys(blocks)[i] # NoKey

\* C3 as stated: after conversion and key assignment every block, span and
\* markDef has a non-empty key and, across the document, no two blocks, no
\* two spans and no two markDefs share a key.
C3_UniqueInDocument ==
    ops = <<"processFile">> =>
        /\ AllKeyed(content)
        /\ Distinct(BlockKeys(content))
        /\ Distinct(SpanKeys(content))
        /\ Distinct(MarkDefKeys(content))

\* C3 amended: after conversion and key assignment every block, span and
\* markDef has a non-empty key; markDef keys are distinct within their own
\* block and every link mark of a span names a markDef of that block; block
\* keys and span keys are distinct whenever no two generateKey calls drew the
\* same random suffix in the same millisecond.
C3_KeyedAndScoped ==
    ops = <<"processFile">> =>
        /\ AllKeyed(content)
        /\ \A i \in 1..Len(content) :
            /\ Distinct(MarkDefKeysOf(content[i]))
            /\ \A j \in 1..Len(content[i].children) :
                \A k \in 1..Len(content[i].children[j].marks) :
                    IsLegacyLinkKey(content[i].children[j].marks[k]) =>
                        \E m \in 1..Len(content[i].markDefs) :
                            content[i].markDefs[m]._key = content[i].children[j].marks[k]
        /\ Distinct(drawn) =>
            Distinct(BlockKeys(content)) /\ Distinct(SpanKeys(content))

\* C3 witness: a keyed document of two blocks, one of them with two links,
\* whose generateKey calls all drew differently.
C3_Witness ==
    /\ ops = <<"processFile">>
    /\ Len(content) = 2
    /\ Distinct(drawn)
    /\ \E i \in 1..2 : Len(content[i].markDefs) = 2
    /\ \E i \in 1..2 : Len(content[i].markDefs) = 1

(***************************************************************************)
(* Claims about the converters.                                            *)
(***************************************************************************)
Converted == ops \in {<<"htmlToPortableText">>, <<"htmlToPortableTextSubstack">>}

\* C4: neither converter emits a text block with an empty children
\* sequence, and every span emitted has a non-empty text.
C4_NoEmptyBlock ==
    Converted =>
        \A i \in 1..Len(content) :
            content[i]._type = "block" =>
                /\ Len(content[i].children) > 0
                /\ \A j \in 1..Len(content[i].children) :
                    content[i].children[j].text # <<>>

\* C4 witness: a body whose only element yields no span (blank text, or an
\* anchor without text) has been converted, and no block was emitted for it.
C4_Witness ==
    /\ Converted
    /\ Len(dom) = 1 /\ dom[1].nodeType = 1 /\ Len(dom[1].childNodes) > 0
    /\ content = <<>>

\* Plain text of a block: its span texts in order; the code of a code block.
PlainText(block) ==
    IF block._type = "block"
    THEN Flatten([j \in 1..Len(block.children) |-> block.children[j].text])
    ELSE block.code

Shape(blocks) ==
    [i \in 1..Len(blocks) |->
        [type |-> blocks[i]._type, style |-> blocks[i].style,
         listItem |-> blocks[i].listItem, text |-> PlainText(blocks[i])]]

\* C5 as stated: converting the rendered markup of a converted document
\* gives a document with the same sequence of block types, styles and
\* listItem values and the same plain text per block.
C5_RoundTrip ==
    ops = <<"htmlToPortableText", "portableTextToHTML", "htmlToPortableText">> =>
        Shape(content) = Shape(before)

IsAnchor(node) == node.nodeType = 1 /\ node.tagName = "a"

\* The span text the whitespace policy prescribes for text node i of kids.
PolicyText(kids, i) ==
    IF Len(kids) = 1 THEN Trim(kids[i].text)
    ELSE IF i = 1 /\ ~IsAnchor(kids[2]) THEN TrimStart(kids[i].text)
    ELSE IF i = Len(kids) /\ ~IsAnchor(kids[i - 1]) THEN TrimEnd(kids[i].text)
    ELSE kids[i].text

\* Children that yield at most one span each: text nodes, and anchors with an
\* href around a single text node.
PolicyKids(kids) ==
    \A i \in 1..Len(kids) :
        \/ kids[i].nodeType = 3
        \/ /\ IsAnchor(kids[i]) /\ kids[i].href # None
           /\ Len(kids[i].childNodes) = 1 /\ kids[i].childNodes[1].nodeType = 3

PolicyTexts(kids) ==
    SelectSeq([i \in 1..Len(kids) |->
                  IF kids[i].nodeType = 3 THEN PolicyText(kids, i)
                  ELSE PolicyText(kids[i].childNodes, 1)],
              LAMBDA text : text # <<>>)

SpanTexts(blocks) ==
    Flatten([i \in 1..Len(blocks) |->
        [j \in 1..Len(blocks[i].children) |-> blocks[i].children[j].text]])

\* C6 as stated: the spans of a paragraph carry the texts of its text nodes
\* trimmed as the whitespace policy prescribes (sole child: both sides;
\* first child not followed by an anchor: leading; last child not preceded
\* by an anchor: trailing; otherwise untrimmed), in document order.
C6_WhitespacePolicy ==
    (Converted /\ Len(dom) = 1 /\ dom[1].tagName = "p" /\ PolicyKids(dom[1].childNodes)) =>
        SpanTexts(content) = PolicyTexts(dom[1].childNodes)

(***************************************************************************)
(* Claims about the renderers.                                             *)
(***************************************************************************)
Rendered == ops \in {<<"rss-feed">>, <<"generate-rss">>}

\* The other shape of a link key; every other mark is left alone.
OtherShape(key) ==
    IF key = LegacyKey THEN OpaqueKey
    ELSE IF key = OpaqueKey THEN LegacyKey
    ELSE IF key = LegacyKey2 THEN OpaqueKey2
    ELSE IF key = OpaqueKey2 THEN LegacyKey2
    ELSE key

\* The same post with every link key, in marks and markDefs, of the other shape.
Rekeyed(blocks) ==
    [i \in 1..Len(blocks) |->
        [blocks[i] EXCEPT
            !.children = [j \in 1..Len(@) |->
                [@[j] EXCEPT !.marks = [k \in 1..Len(@) |-> OtherShape(@[k])]]],
            !.markDefs = [m \in 1..Len(@) |-> [@[m] EXCEPT !._key = OtherShape(@)]]]]

AllLinks(blocks) ==
    \A i \in 1..Len(blocks) : \A m \in 1..Len(blocks[i].markDefs) :
        blocks[i].markDefs[m]._type = "link"

\* C7 as stated: a post whose markDefs are links renders to the same
\* content markup and the same description whichever shape its link keys
\* have, in the feed function and in the build script.
C7_BothKeyShapes ==
    (Rendered /\ AllLinks(content)) =>
        /\ ops = <<"rss-feed">> =>
            /\ html = portableTextToHTML(Rekeyed(content))
            /\ desc = Description(extractTextFromContent(Rekeyed(content)))
        /\ ops = <<"generate-rss">> =>
            /\ html = portableTextToHTMLBuild(Rekeyed(content))
            /\ desc = Description(extractTextFromContentBuild(Rekeyed(content)))

Contains(s, pat) == \E i \in 0..Len(s) : StartsWith(Slice(s, i), pat)

\* The (decoded) href values of the anchors of a markup.
AnchorHrefs(tokens) ==
    {DecodeEntities(tokens[i].href) :
        i \in {k \in 1..Len(tokens) : tokens[k].kind = "open" /\ tokens[k].tag = "a"}}

AnchorStart == <<"<", "a", " ", "h", "r", "e", "f", "=">>

\* The post holds one link markDef with an href, named by a mark of its
\* last span.
OneLink ==
    /\ Len(content) = 1 /\ Len(content[1].markDefs) = 1
    /\ content[1].markDefs[1]._type = "link"
    /\ content[1].markDefs[1].href # None
    /\ \E k \in 1..Len(content[1].children[Len(content[1].children)].marks) :
        content[1].children[Len(content[1].children)].marks[k]
            = content[1].markDefs[1]._key

TheHref == Trim(content[1].markDefs[1].href)

\* URI scheme: a letter, then letters, digits, '+', '-' or '.', then ':'.
HasScheme(href) ==
    \E i \in 2..Len(href) :
        /\ href[i] = ":"
        /\ IsLetter(href[1])
        /\ \A k \in 1..(i - 1) :
            IsLetter(href[k]) \/ href[k] \in Digits \cup {"+", "-", "."}

\* The host part of an http(s) URL holds no dot.
DotlessHost(href) ==
    /\ HasHttpScheme(href)
    /\ \A i \in 1..Len(AfterHttpScheme(href)) :
        AfterHttpScheme(href)[i] = "." =>
            \E k \in 1..(i - 1) : AfterHttpScheme(href)[k] \in WS \cup {"/"}

Relative(href) ==
    \/ StartsWith(href, <<"/">>)
    \/ StartsWith(href, <<"#">>)
    \/ StartsWith(href, <<"m", "a", "i", "l", "t", "o", ":">>)

C9_OtherSchemesUnlinked ==
    (Rendered /\ OneLink) =>
        /\ (HasScheme(TheHref) /\ ~HasHttpScheme(TheHref) /\ ~Relative(TheHref)) =>
            AnchorHrefs(html) = {} /\ ~Contains(desc, AnchorStart)
        /\ AnchorHrefs(html) = {HttpsPrefix \o TheHref} => ~HasScheme(TheHref)

(***************************************************************************)
(* Claims about the title cleanup.                                         *)
(***************************************************************************)
IsUpper(c) == \E i \in 1..26 : c = UpperCase[i]
IsLower(c) == \E i \in 1..26 : c = LowerCase[i]

Count(s, c) == Cardinality({i \in 1..Len(s) : s[i] = c})

YearsAgoTitle == <<"Y", "e", "a", "r", "s", " ", "a", "g", "o", " ", "w", "h", "e", "n", " ", "i", " ", "w", "o", "r", "k", "e", "d">>

\* C10: the result of cleanTitle is its (entity-decoded) argument without
\* the leading digits, optional dot and white space, with words separated by
\* single spaces and letters changed in case only: the first character is
\* not lower case, no later character is upper case, and every apostrophe is
\* kept; the file '148862681.years-ago-when-i-worked.html' without a title
\* in the HTML yields 'Years ago when i worked'.
C10_CleanTitle ==
    /\ (ops # <<>> /\ ops[Len(ops)] = "cleanTitle") =>
        LET stripped == Trim(StripLeadingNumber(decodeHtmlEntities(before))) IN
        /\ ToLower(title) = ToLower(JoinWith(SplitWords(stripped), <<" ">>))
        /\ title # <<>> => ~IsLower(title[1]) /\ title[1] = ToUpperChar(stripped[1])
        /\ \A i \in 2..Len(title) : ~IsUpper(title[i])
        /\ Count(title, "'") = Count(decodeHtmlEntities(before), "'")
    /\ ops = <<"parseSubstackHTML">> =>
        /\ \A i \in 2..Len(title) : ~IsUpper(title[i])
        /\ (HtmlTitle(before, dom, input.docTitle) = <<>> /\ fileName = YearsAgoFile)
            => title = YearsAgoTitle

\* C10 witness: the file-name example has been resolved to its title.
C10_Witness ==
    /\ ops = <<"parseSubstackHTML">>
    /\ HtmlTitle(before, dom, input.docTitle) = <<>> /\ fileName = YearsAgoFile
    /\ title = YearsAgoTitle


(***************************************************************************)
(* Extraction of a post from an exported file.                             *)
(***************************************************************************)
RecordFields == {"title", "slug", "publishedAt", "excerpt", "image", "readTime", "content"}

\* C11: parseSubstackHTML returns a record with title, slug, publishedAt,
\* excerpt, image and content for every document, file name and date index,
\* and the title of that record is never empty: when no source yields a
\* title, or the only candidate consists of digits, it is the default title.
C11_CompleteRecord ==
    ops = <<"parseSubstackHTML">> =>
        /\ DOMAIN record = RecordFields
        /\ record.publishedAt # None
        /\ record.title # <<>>

\* C12: the publishedAt of the returned record is a canonical UTC ISO-8601
\* string (YYYY-MM-DDTHH:mm:ss.sssZ of a real instant), whichever source
\* supplied it.
C12_CanonicalPublishedAt ==
    ops = <<"parseSubstackHTML">> =>
        /\ Len(record.publishedAt) = 24
        /\ NewDate(record.publishedAt, 0).valid
        /\ toISOString(NewDate(record.publishedAt, 0)) = record.publishedAt

\* The instant a run of digits denotes as a timestamp: seconds when the number
\* it spells has ten digits, milliseconds otherwise.
StampOf(run) == DateOfMillis(Milliseconds(StripZeros(run)))

\* C13: a date string or leading file-name timestamp whose number has ten
\* digits is read as seconds and any other as milliseconds; '1700000000'
\* yields 2023-11-14T22:13:20.000Z; a leading timestamp of 10 or 13 digits
\* in a file name is accepted exactly when the year of its instant on the
\* local clock lies strictly between 2000 and 2100, and rejected otherwise.
C13_Timestamps ==
    ops = <<"parseSubstackHTML">> =>
        LET run == RunOf(fileName, Digits)
            year == getFullYear(StampOf(run), input.zone)
            strings == input.jsonLd \o input.elements
        IN  /\ (input.csv = <<>> /\ Len(run) \in {10, 13}) =>
                IF year \in 2001..2099
                THEN record.publishedAt = toISOString(StampOf(run))
                ELSE /\ extractDateFromFilename(fileName, input.zone) = None
                     /\ record.publishedAt # toISOString(StampOf(run))
            /\ \A i \in 1..Len(strings) :
                (IsDigits(strings[i]) /\ Len(strings[i]) \in {10, 13}) =>
                    parseDate(strings[i], input.zone) =
                        IF getFullYear(StampOf(strings[i]), input.zone) \in 2001..2099
                        THEN toISOString(StampOf(strings[i])) ELSE None
            /\ (input.csv = <<>> /\ extractDateFromFilename(fileName, input.zone) = None
                /\ strings = <<SecondsText>>) => record.publishedAt = SecondsInstant

\* C13 witness: the file name that starts with the first second of the year
\* 2100 (UTC) has been parsed on a UTC clock and its timestamp was rejected.
C13_Witness ==
    /\ ops = <<"parseSubstackHTML">>
    /\ fileName = Year2100File /\ input.csv = <<>> /\ input.zone = 0
    /\ getFullYear(StampOf(RunOf(fileName, Digits)), 0) = 2100
    /\ record.publishedAt # <<"2", "1", "0", "0", "-", "0", "1", "-", "0", "1", "T", "0", "0", ":",
        "0", "0", ":", "0", "0", ".", "0", "0", "0", "Z">>

\* C13 as stated: a 10-digit run is seconds, a 13-digit run milliseconds, and
\* the file-name timestamp is accepted exactly when the year of the instant
\* lies in 2000..2100, both included.
C13_YearsInclusive ==
    ops = <<"parseSubstackHTML">> =>
        LET run == RunOf(fileName, Digits)
            instant == DateOfMillis(IF Len(run) = 10 THEN run \o <<"0", "0", "0">> ELSE run)
        IN  (input.csv = <<>> /\ Len(run) \in {10, 13}) =>
                IF getFullYear(instant, input.zone) \in 2000..2100
                THEN record.publishedAt = toISOString(instant)
                ELSE extractDateFromFilename(fileName, input.zone) = None


(***************************************************************************)
(* Claims about the formatting update.                                     *)
(***************************************************************************)
\* The posts of the store a slug names, whatever the case of its letters.
SlugHits(slug) ==
    {i \in 1..Len(store) : store[i].slug # None /\ ToLower(store[i].slug) = ToLower(slug)}

\* The posts of the store whose normalized title is that of the document,
\* its title cut at the first '|'.
TitleHits ==
    LET shown == Trim(RunOf(decodeHtmlEntities(title),
                            {title[i] : i \in 1..Len(title)} \ {"|"}))
    IN  IF shown = <<>> THEN {}
        ELSE {i \in 1..Len(store) : /\ store[i].title # <<>>
                                    /\ NormalizeTitle(store[i].title) = NormalizeTitle(shown)}

\* The slug of the file without its leading digits, when it has any.
StrippedHits ==
    LET slug == extractSlugFromFilename(fileName)
    IN  IF RunOf(slug, Digits) = <<>> THEN {}
        ELSE SlugHits(Slice(slug, Len(RunOf(slug, Digits))))

\* The hits of the earliest strategy that has any.
EarliestHits ==
    IF SlugHits(extractSlugFromFilename(fileName)) # {}
    THEN SlugHits(extractSlugFromFilename(fileName))
    ELSE IF StrippedHits # {} THEN StrippedHits ELSE TitleHits

\* C14: the slug of '220.my-post.html' is '220my-post'; the post matched to
\* a file is one the slug index holds for that slug, compared without case;
\* only if there is none, one it holds for the slug without leading digits;
\* only if there is none either, one with the normalized title of the
\* document; and no post is matched only if all three miss.
C14_Cascade ==
    /\ extractSlugFromFilename(<<"2", "2", "0", ".", "m", "y", "-", "p", "o", "s", "t", ".", "h",
        "t", "m", "l">>) = <<"2", "2", "0", "m", "y", "-", "p", "o", "s", "t">>
    /\ ops = <<"processFile">> =>
        IF EarliestHits = {} THEN record.result = "skipped" /\ record.post = None
        ELSE \E i \in EarliestHits : record.post = store[i]._id

\* C14 witness: the file '220.my-post.html' was matched by its slug to one
\* post while the title of the document is that of another post.
C14_Witness ==
    /\ ops = <<"processFile">>
    /\ fileName = <<"2", "2", "0", ".", "m", "y", "-", "p", "o", "s", "t", ".", "h", "t", "m", "l">>
    /\ SlugHits(<<"2", "2", "0", "m", "y", "-", "p", "o", "s", "t">>) # {} /\ TitleHits # {}
    /\ SlugHits(<<"2", "2", "0", "m", "y", "-", "p", "o", "s", "t">>) \cap TitleHits = {}
    /\ \E i \in SlugHits(<<"2", "2", "0", "m", "y", "-", "p", "o", "s",
        "t">>) : record.post = store[i]._id

\* C15: client.patch is called for a file only when a post was matched and
\* the run is not a dry run, and then once, with the id of the matched post;
\* a file no strategy matches gives the result 'skipped', adds one to the
\* skipped total and none to the error total, and nothing is written.
C15_WriteOnlyWhenMatched ==
    ops = <<"processFile">> =>
        /\ IF EarliestHits # {} /\ ~input.dryRun
           THEN /\ Len(calls) = 1
                /\ calls[1].op = "patch" /\ calls[1].id = record.post
                /\ \E i \in EarliestHits : calls[1].id = store[i]._id
           ELSE calls = <<>>
        /\ EarliestHits = {} =>
            /\ record.result = "skipped"
            /\ record.skipCount = 1 /\ record.errorCount = 0 /\ record.successCount = 0
            /\ \A i \in 1..Len(store) : store[i].content = <<>>

\* C15 witness: a run that is not a dry run has patched the matched post.
C15_Witness ==
    /\ ops = <<"processFile">>
    /\ ~input.dryRun /\ EarliestHits # {}
    /\ Len(calls) = 1 /\ record.result = "success"
    /\ \E i \in EarliestHits : store[i].content = calls[1].content /\ calls[1].content # <<>>

(***************************************************************************)
(* Claims about the description of a feed item.                            *)
(***************************************************************************)
\* The offsets of s at which pat starts.
Occurrences(s, pat) ==
    {i \in 1..Len(s) : i + Len(pat) - 1 <= Len(s) /\ SubSeq(s, i, i + Len(pat) - 1) = pat}

\* s ends inside a tag: its last '<' has no '>' after it.
EndsInsideTag(s) ==
    \E i \in 1..Len(s) : s[i] = "<" /\ \A k \in i..Len(s) : s[k] # ">"

\* s ends inside an anchor: it opens more anchors than it closes.
EndsInsideAnchor(s) ==
    Cardinality(Occurrences(s, <<"<", "a", " ">>)) > Cardinality(Occurrences(s, <<"<", "/", "a",
        ">">>))

\* The description without the dots of a hard truncation.
CutText ==
    IF Len(desc) >= 3 /\ SubSeq(desc, Len(desc) - 2, Len(desc)) = <<".", ".", ".">>
    THEN SubSeq(desc, 1, Len(desc) - 3) ELSE desc

\* C16: a description made from a content of more than 300 characters ends
\* at the end of a complete '</a>' or, when it was cut hard and given dots,
\* its cut lies neither inside an '<a ...>' tag nor between an '<a ...>' and
\* its '</a>'.
C16_CutOutsideTags ==
    (ops # <<>> /\ Len(ExtractWith(content, ops[1])) > DescriptionLimit) =>
        /\ Len(desc) <= DescriptionLimit
        /\ ~EndsInsideTag(CutText)
        /\ ~EndsInsideAnchor(CutText)

(***************************************************************************)
(* Lists in the rendered markup: posts of list items of both types among   *)
(* paragraphs, images and code blocks.                                     *)
(***************************************************************************)
MaxItems == 4

\* The blocks a post of lists is made of: list items of both types (one
\* without children), paragraphs (one without children), an image with its
\* url and a code block.
ListKinds ==
    {Stored("bullet", <<StoredSpan(<<"a">>, <<>>, <<"s1">>)>>, <<>>),
     Stored("number", <<StoredSpan(<<"b">>, <<>>, <<"s1">>)>>, <<>>),
     Stored("bullet", <<>>, <<>>),
     Stored("", <<StoredSpan(<<"c">>, <<>>, <<"s1">>)>>, <<>>),
     Stored("", <<>>, <<>>),
     [ImageBlock(None, <<"d">>) EXCEPT !.url = HrefHttps],
     CodeBlock(<<"e">>, <<"j", "s">>)}

ListPosts == UNION {[1..n -> ListKinds] : n \in 1..MaxItems}

InitLists ==
    /\ content \in ListPosts
    /\ before = <<>>
    /\ ops = <<>>
    /\ now = 0
    /\ record = <<>>
    /\ store = <<>>
    /\ calls = <<>>
    /\ input = <<>>
    /\ drawn = <<>>
    /\ dom = <<>>
    /\ html = <<>>
    /\ desc = <<>>
    /\ title = <<>>
    /\ fileName = <<>>

SpecLists == InitLists /\ [][NextRender]_vars

\* The token is the opening or closing tag of a list.
IsListTag(token) == token.kind \in {"open", "close"} /\ token.tag \in {"ul", "ol"}

\* The tag of the list that is open after the first k tokens of the markup,
\* "" when none is.
OpenListAt(k) ==
    LET tagOf(hits) ==
            IF hits = {} THEN ""
            ELSE LET last == CHOOSE i \in hits : \A j \in hits : j <= i
                 IN  IF html[last].kind = "open" THEN html[last].tag ELSE ""
    IN  tagOf({i \in 1..k : IsListTag(html[i])})

\* The places of the list-item blocks in the post and of the '<li>' tags in
\* the markup.
ItemBlocks == {i \in 1..Len(content) : content[i]._type = "block" /\ content[i].listItem # ""}

ItemTokens == {k \in 1..Len(html) : html[k] = Open("li")}

\* The place of the '<li>' of list-item block i, and of its '</li>'.
ItemAt(i) ==
    CHOOSE k \in ItemTokens :
        Cardinality({m \in ItemTokens : m <= k}) = Cardinality({j \in ItemBlocks : j <= i})

ItemEnd(i) ==
    CHOOSE k \in ItemAt(i)..Len(html) :
        html[k] = Close("li") /\ \A m \in ItemAt(i)..(k - 1) : html[m] # Close("li")

\* The list element the claim gives the items of a type.
TagOfType(listItem) == IF listItem = "bullet" THEN "ul" ELSE IF listItem = "number" THEN "ol" ELSE ""

\* Blocks i and i + 1 are list items of one type.
SameRun(i) ==
    /\ i \in ItemBlocks
    /\ i + 1 \in ItemBlocks
    /\ content[i].listItem = content[i + 1].listItem

\* C17: in the markup of any post the list tags are balanced and never
\* nested; every '<li>' lies in an open list of its block's type ('<ul>' for
\* bullet, '<ol>' for number); the items of a maximal run of one type lie in
\* one list element, opened right before the first and closed right after
\* the last of them, before anything a later block emits and at the end of
\* the markup.
C17_ListState ==
    ops # <<>> =>
        /\ \A k \in 1..Len(html) :
               IsListTag(html[k]) =>
                   IF html[k].kind = "open" THEN OpenListAt(k - 1) = ""
                   ELSE OpenListAt(k - 1) = html[k].tag
        /\ OpenListAt(Len(html)) = ""
        /\ Cardinality(ItemTokens) = Cardinality(ItemBlocks)
        /\ \A i \in ItemBlocks :
               /\ OpenListAt(ItemAt(i)) = TagOfType(content[i].listItem)
               /\ SameRun(i) =>
                      \A k \in ItemAt(i)..ItemAt(i + 1) : ~IsListTag(html[k])
               /\ ~SameRun(i) =>
                      /\ ItemEnd(i) + 2 <= Len(html)
                      /\ html[ItemEnd(i) + 1] = Chars(<<"\n">>)
                      /\ html[ItemEnd(i) + 2] = Close(TagOfType(content[i].listItem))
               /\ (i = 1 \/ ~SameRun(i - 1)) =>
                      /\ ItemAt(i) > 2
                      /\ html[ItemAt(i) - 2] = Open(TagOfType(content[i].listItem))

\* Two bullet items, a number item and a paragraph were rendered into two
\* list elements.
C17_Witness ==
    /\ ops = <<"rss-feed">>
    /\ Len(content) = 4
    /\ <<content[1].listItem, content[2].listItem, content[3].listItem, content[4].listItem>>
           = <<"bullet", "bullet", "number", "">>
    /\ content[4].children # <<>>
    /\ Cardinality(ItemTokens) = 3
    /\ Cardinality({k \in 1..Len(html) : IsListTag(html[k]) /\ html[k].kind = "open"}) = 2

(***************************************************************************)
(* The import of converted posts into the store (import-to-sanity.js).     *)
(***************************************************************************)
MaxPosts == 2

\* The slugs of the posts of the store.
SlugsOf(posts) == {posts[i].slug : i \in 1..Len(posts)}

\* postExists(slug): the query for a post of the slug; a query that fails
\* answers false.
postExists(posts, slug, fetchFails) == ~fetchFails /\ slug \in SlugsOf(posts)

\* fetchExistingSlugs(): the slugs of the store when main starts; the empty
\* set after a query that fails.
fetchExistingSlugs(posts, fetchFails) == IF fetchFails THEN {} ELSE SlugsOf(posts)

\* importPost(post, dryRun, { skipExisting }): its result and whether
\* client.create was called on the way.
importPost(posts, post, flags, skipExisting) ==
    IF ~flags.dryRun /\ skipExisting /\ postExists(posts, post.slug, flags.fetchFails)
    THEN [success |-> FALSE, skipped |-> TRUE, creates |-> FALSE]
    ELSE IF flags.dryRun
    THEN [success |-> TRUE, skipped |-> FALSE, creates |-> FALSE]
    ELSE [success |-> ~flags.createFails, skipped |-> FALSE, creates |-> TRUE]

\* The counters of main after the result of one post.
CountedImport(totals, result) ==
    IF result.success
    THEN IF result.skipped THEN [totals EXCEPT !.skipCount = @ + 1, !.result = "skipped"]
         ELSE [totals EXCEPT !.successCount = @ + 1, !.result = "success"]
    ELSE [totals EXCEPT !.errorCount = @ + 1, !.result = "error"]

\* The posts of the file to import and the posts of the store.
ImportSlugs == {<<"a">>, <<"b">>}

ImportFiles ==
    UNION {[1..n -> {Post(None, <<"t">>, slug) : slug \in ImportSlugs}] : n \in 1..MaxPosts}

ImportStores == {<<>>, <<Post(<<"p", "1">>, <<"t">>, <<"a">>)>>}

InitImport ==
    /\ store \in ImportStores
    /\ input \in [posts : ImportFiles, dryRun : BOOLEAN, skipChecks : BOOLEAN,
                  fetchFails : BOOLEAN, createFails : BOOLEAN]
    /\ record = [NoTotals EXCEPT !.post = 0]
    /\ calls = <<>>
    /\ before = <<>>
    /\ ops = <<>>
    /\ content = <<>>
    /\ now = 0
    /\ drawn = <<>>
    /\ dom = <<>>
    /\ html = <<>>
    /\ desc = <<>>
    /\ title = <<>>
    /\ fileName = <<>>

\* main up to its loop: existingSlugs is fetched unless the run is a dry run
\* or skips the checks; drawn holds existingSlugs.
FetchExisting ==
    /\ ops = <<>>
    /\ drawn' = IF ~input.skipChecks /\ ~input.dryRun
                THEN fetchExistingSlugs(store, input.fetchFails) ELSE {}
    /\ ops' = <<"fetchExistingSlugs">>
    /\ UNCHANGED <<content, before, now, dom, html, desc, title, fileName>>
    /\ UNCHANGED <<record, store, calls, input>>

\* One turn of the loop of main over postsToImport: record.post is the index
\* i + 1 of the post of the turn, before the state the turn started in.
ImportNext ==
    /\ ops # <<>>
    /\ record.post < Len(input.posts)
    /\ before' = [store |-> store, calls |-> calls, totals |-> record]
    /\ ops' = Append(ops, "importPost")
    /\ LET post == input.posts[record.post + 1]
           result == importPost(store, post, input, input.skipChecks)
       IN  IF ~input.skipChecks /\ ~input.dryRun /\ post.slug \in drawn
           THEN /\ record' = [record EXCEPT !.post = @ + 1, !.skipCount = @ + 1,
                                            !.result = "skipped"]
                /\ UNCHANGED <<store, calls>>
           ELSE /\ record' = [CountedImport(record, result) EXCEPT !.post = @ + 1]
                /\ calls' = IF result.creates
                            THEN Append(calls, [op |-> "create", slug |-> post.slug])
                            ELSE calls
                /\ store' = IF result.creates /\ result.success
                            THEN Append(store, [post EXCEPT !._id = <<"n", record.post + 1>>])
                            ELSE store
    /\ UNCHANGED <<content, now, drawn, dom, html, desc, title, fileName, input>>

NextImport == FetchExisting \/ ImportNext

SpecImport == InitImport /\ [][NextImport]_vars

\* C18: after a turn of a real import over a post whose slug was the slug
\* of a post of the store when the turn started, client.create was not
\* called in the turn and the post was counted as skipped, not as an error.
C18_SkipExisting ==
    (/\ ops # <<>>
     /\ ops[Len(ops)] = "importPost"
     /\ ~input.dryRun
     /\ input.posts[record.post].slug \in SlugsOf(before.store)) =>
        /\ calls = before.calls
        /\ record.skipCount = before.totals.skipCount + 1
        /\ record.errorCount = before.totals.errorCount

(***************************************************************************)
(* The newsletter: the subscribe endpoint mails a confirmation link, the   *)
(* confirmation endpoint adds the contact to the audience.                 *)
(***************************************************************************)
MaxRequests == 2

\* const twentyFourHours = 24 * 60 * 60 * 1000
TwentyFourHours == 24 * 60 * 60 * 1000

\* crypto.createHmac('sha256', secret).update(message).digest('hex'): a term
\* over the secret and the message; equal digests have equal secrets and
\* messages.
createHmac(secret, message) == <<"hmac-sha256", secret, message>>

\* `${email}:${timestamp}`
TokenData(email, timestamp) == email \o <<":">> \o DigitsOf(timestamp)

\* The token of a confirmation link by what JSON.parse makes of its decoded
\* text: "absent" (no token parameter), "invalid" (a text that does not
\* parse), "null", "empty" (the object {}), or an object of the three fields.
Token(json, email, timestamp, token) ==
    [json |-> json, email |-> email, timestamp |-> timestamp, token |-> token]

\* emailRegex.test(s): /^[^\s@]+@[^\s@]+\.[^\s@]+$/
IsEmail(s) ==
    /\ \A i \in 1..Len(s) : s[i] \notin WS
    /\ Cardinality({i \in 1..Len(s) : s[i] = "@"}) = 1
    /\ \E p \in 2..Len(s) :
           /\ s[p] = "@"
           /\ \E q \in (p + 2)..(Len(s) - 1) : s[q] = "."

\* CONFIRMATION_SECRET of the deployment, and the fallback of the source.
EnvSecret == "env-secret"

DefaultSecret == "your-secret-key-change-this"

\* The handler of subscribe.js for a POST with the given email: its status
\* code and its calls of the Resend client.
subscribe(email, clock, env, sendFails) ==
    IF email = <<>> THEN [statusCode |-> 400, sent |-> <<>>]
    ELSE IF ~IsEmail(Trim(email)) THEN [statusCode |-> 400, sent |-> <<>>]
    ELSE IF ~env.configured THEN [statusCode |-> 500, sent |-> <<>>]
    ELSE [statusCode |-> IF sendFails THEN 500 ELSE 200,
          sent |-> <<[op |-> "emails.send", email |-> Trim(email),
                      confirmToken |->
                          Token("object", Trim(email), clock,
                                createHmac(env.secret, TokenData(Trim(email), clock)))]>>]

\* The handler of confirm-subscription.js for a GET with the given token.
\* Destructuring null throws (500); the fields of {} are undefined: the
\* difference of the clock and undefined is NaN, which is not greater than
\* twentyFourHours, and undefined differs from every digest.
confirmSubscription(token, clock, env, outcome) ==
    IF token.json = "absent" THEN [statusCode |-> 400, sent |-> <<>>]
    ELSE IF token.json = "invalid" THEN [statusCode |-> 400, sent |-> <<>>]
    ELSE IF token.json = "null" THEN [statusCode |-> 500, sent |-> <<>>]
    ELSE IF token.json = "empty" THEN [statusCode |-> 400, sent |-> <<>>]
    ELSE IF clock - token.timestamp > TwentyFourHours THEN [statusCode |-> 400, sent |-> <<>>]
    ELSE IF token.token # createHmac(env.secret, TokenData(token.email, token.timestamp))
    THEN [statusCode |-> 400, sent |-> <<>>]
    ELSE IF ~env.configured THEN [statusCode |-> 500, sent |-> <<>>]
    ELSE [statusCode |-> IF outcome = "error" THEN 500 ELSE 200,
          sent |-> <<[op |-> "contacts.create", email |-> token.email,
                      confirmToken |-> token]>>]

\* The addresses posted to the subscribe endpoint.
Reader == <<"a", "@", "b", ".", "c", "o">>

Other == <<"x", "@", "y", ".", "c", "o">>

PostedEmails == {Reader, <<" ">> \o Reader \o <<" ">>, <<"a", "@", "b">>, <<"a", " ", "b", "@", "c", ".", "d">>, <<>>}

\* The readings of the clock.
Clock == {0, 1, TwentyFourHours \div 2, TwentyFourHours, TwentyFourHours + 1, TwentyFourHours + 2}

\* A digest that no key made.
Junk == <<"hmac-sha256", "", <<>>>>

\* The tokens a request to the confirmation endpoint can carry: none, texts
\* that do not parse or parse to null or {}, the tokens of the mails sent so
\* far, those tokens with another address, a later timestamp or another
\* digest, and tokens made with the fallback secret of the source.
RequestTokens(sentCalls, clock) ==
    LET mailed == {sentCalls[i].confirmToken : i \in {k \in 1..Len(sentCalls) :
                                                     sentCalls[k].op = "emails.send"}}
    IN  {Token(json, <<>>, 0, Junk) : json \in {"absent", "invalid", "null", "empty"}}
        \cup mailed
        \cup {[t EXCEPT !.email = Other] : t \in mailed}
        \cup {[t EXCEPT !.timestamp = @ + 1] : t \in mailed}
        \cup {[t EXCEPT !.token = Junk] : t \in mailed}
        \cup {Token("object", Other, clock, createHmac(DefaultSecret, TokenData(Other, clock)))}

InitNewsletter ==
    /\ input \in [configured : BOOLEAN, secret : {EnvSecret, DefaultSecret}]
    /\ store = {}
    /\ calls = <<>>
    /\ now = 0
    /\ record = [statusCode |-> 0]
    /\ before = <<>>
    /\ ops = <<>>
    /\ content = <<>>
    /\ drawn = <<>>
    /\ dom = <<>>
    /\ html = <<>>
    /\ desc = <<>>
    /\ title = <<>>
    /\ fileName = <<>>

\* A POST to the subscribe endpoint.
Subscribe ==
    /\ Len(ops) < MaxRequests
    /\ \E email \in PostedEmails, sendFails \in BOOLEAN :
           /\ before' = [request |-> email, calls |-> calls, at |-> now]
           /\ record' = [statusCode |-> subscribe(email, now, input, sendFails).statusCode]
           /\ calls' = calls \o subscribe(email, now, input, sendFails).sent
    /\ ops' = Append(ops, "subscribe")
    /\ UNCHANGED <<content, now, drawn, dom, html, desc, title, fileName, store, input>>

\* A GET to the confirmation endpoint; outcome is the answer of the Resend
\* client to contacts.create.
Confirm ==
    /\ Len(ops) < MaxRequests
    /\ \E token \in RequestTokens(calls, now), outcome \in {"ok", "duplicate", "error"} :
           /\ before' = [request |-> token, calls |-> calls, at |-> now]
           /\ record' = [statusCode |->
                             confirmSubscription(token, now, input, outcome).statusCode]
           /\ calls' = calls \o confirmSubscription(token, now, input, outcome).sent
           /\ store' = IF outcome = "ok"
                       THEN store \cup {confirmSubscription(token, now, input, outcome).sent[i]
                                            .email :
                                        i \in 1..Len(confirmSubscription(token, now, input,
                                                                         outcome).sent)}
                       ELSE store
    /\ ops' = Append(ops, "confirm")
    /\ UNCHANGED <<content, now, drawn, dom, html, desc, title, fileName, input>>

\* Time passes between two requests.
Tick ==
    /\ \E later \in Clock : later > now /\ now' = later
    /\ UNCHANGED <<content, before, ops, drawn, dom, html, desc, title, fileName>>
    /\ UNCHANGED <<record, store, calls, input>>

NextNewsletter == Subscribe \/ Confirm \/ Tick

SpecNewsletter == InitNewsletter /\ [][NextNewsletter]_vars

\* The contacts.create calls of the latest request.
Created ==
    {i \in (Len(before.calls) + 1)..Len(calls) : calls[i].op = "contacts.create"}

\* The token of the latest confirmation request is signed under the
\* confirmation secret and at most 24 hours old.
Signed ==
    /\ before.request.json = "object"
    /\ before.request.token =
           createHmac(input.secret, TokenData(before.request.email, before.request.timestamp))

Recent == before.at - before.request.timestamp <= TwentyFourHours

\* C19 (contacts): the subscribe endpoint adds no contact, and the
\* confirmation endpoint adds one only for a token signed under the
\* confirmation secret whose timestamp is at most 24 hours old, and then
\* the address of the token.
C19_OnlyConfirmed ==
    ops # <<>> =>
        /\ ops[Len(ops)] = "subscribe" => Created = {}
        /\ (ops[Len(ops)] = "confirm" /\ Created # {}) =>
               /\ Signed
               /\ Recent
               /\ \A i \in Created : calls[i].email = before.request.email

\* C19: beyond that, a request whose token is expired, malformed or wrongly
\* signed is answered with 400 and adds no contact.
C19_DoubleOptIn ==
    /\ C19_OnlyConfirmed
    /\ (ops # <<>> /\ ops[Len(ops)] = "confirm" /\ ~(Signed /\ Recent)) =>
           /\ record.statusCode = 400
           /\ Created = {}

(***************************************************************************)
(* Links in converted paragraphs: anchors below and above style elements.  *)
(***************************************************************************)
AnchorNodes ==
    {Text(<<"a">>),
     El("strong", <<Text(<<"e">>)>>),
     A(<<"/", "p">>, <<Text(<<"g">>)>>),
     A(None, <<Text(<<"h">>)>>),
     A(<<"/", "q">>, <<>>),
     A(<<"/", "r">>, <<El("strong", <<Text(<<"i">>)>>)>>),
     El("em", <<A(<<"/", "s">>, <<Text(<<"k">>), El("code", <<Text(<<"l">>)>>)>>)>>)}

AnchorInputs == {<<El("p", kids)>> : kids \in SeqsUpTo(AnchorNodes, MaxKids)}

InitAnchors ==
    /\ dom \in AnchorInputs
    /\ content = <<>>
    /\ before = <<>>
    /\ ops = <<>>
    /\ now = 0
    /\ record = <<>>
    /\ store = <<>>
    /\ calls = <<>>
    /\ input = <<>>
    /\ drawn = <<>>
    /\ html = <<>>
    /\ desc = <<>>
    /\ title = <<>>
    /\ fileName = <<>>

SpecAnchors == InitAnchors /\ [][NextConvert]_vars

\* The anchors with an href below the element, in document order.
LinkedAnchors(element) ==
    SelectSeq(querySelectorAll(element, "a"), LAMBDA anchor : anchor.href # None)

RECURSIVE StyledTexts(_, _)
\* The text nodes with text at or below the node, each with the style marks
\* of the elements between it and the start of the walk.
StyledTexts(node, styles) ==
    IF node.nodeType = 3
    THEN IF Trim(node.text) # <<>> THEN {[text |-> node.text, styles |-> styles]} ELSE {}
    ELSE UNION {StyledTexts(node.childNodes[i],
                            styles \cup {StyleMarkOf(node.tagName)[k] :
                                             k \in 1..Len(StyleMarkOf(node.tagName))}) :
                i \in 1..Len(node.childNodes)}

\* The style marks of the ancestors of the k-th linked anchor: the marks of
\* the style elements of the paragraph that hold it.
AncestorStyles(element, anchor) ==
    UNION {{StyleMarkOf(element.childNodes[i].tagName)[1]} :
               i \in {j \in 1..Len(element.childNodes) :
                         /\ element.childNodes[j].nodeType = 1
                         /\ StyleMarkOf(element.childNodes[j].tagName) # <<>>
                         /\ \E n \in 1..Len(querySelectorAll(element.childNodes[j], "a")) :
                                querySelectorAll(element.childNodes[j], "a")[n] = anchor}}

\* C20: in the block made of a paragraph, the markDefs are one
\* {key 'link-<index>', type 'link', href} for every anchor with an href, in
\* document order, and every text node with text below such an anchor has a
\* span of its text that carries the key of the anchor, the style marks of
\* the ancestors of the anchor and those of the strong/b, em/i and code
\* elements between the anchor and the text.
C20_AnchorMarks ==
    (Len(ops) = 1 /\ Len(content) = 1) =>
        LET anchors == LinkedAnchors(dom[1])
            block == content[1]
        IN  /\ Len(block.markDefs) = Len(anchors)
            /\ \A k \in 1..Len(anchors) :
                   /\ block.markDefs[k] = LinkDef(<<"link-", NumStr(k - 1)>>, anchors[k].href)
                   /\ \A t \in StyledTexts(anchors[k], AncestorStyles(dom[1], anchors[k])) :
                          \E c \in 1..Len(block.children) :
                              /\ Trim(block.children[c].text) = Trim(t.text)
                              /\ \E m \in 1..Len(block.children[c].marks) :
                                     block.children[c].marks[m] = <<"link-", NumStr(k - 1)>>
                              /\ \A style \in t.styles :
                                     \E m \in 1..Len(block.children[c].marks) :
                                         block.children[c].marks[m] = style

\* The anchors without an href below the element, in document order.
BareAnchors(element) ==
    SelectSeq(querySelectorAll(element, "a"), LAMBDA anchor : anchor.href = None)

\* The mark is the key of a link.
IsLinkMark(mark) == mark \notin {<<"strong">>, <<"em">>, <<"code">>}

\* C21: every text node with text below an anchor without an href has a
\* span of its text in a block of the converted paragraph, with the marks
\* of the style elements around it and no link mark, and the markDefs of the
\* paragraph are those of its anchors with an href.
C21_BareAnchorTransparent ==
    Len(ops) = 1 =>
        /\ \A k \in 1..Len(BareAnchors(dom[1])) :
               \A t \in StyledTexts(BareAnchors(dom[1])[k],
                                    AncestorStyles(dom[1], BareAnchors(dom[1])[k])) :
                   \E b \in 1..Len(content) :
                       \E c \in 1..Len(content[b].children) :
                           /\ Trim(content[b].children[c].text) = Trim(t.text)
                           /\ {content[b].children[c].marks[m] :
                                   m \in 1..Len(content[b].children[c].marks)} = t.styles
        /\ \A b \in 1..Len(content) :
               Len(content[b].markDefs) <= Len(LinkedAnchors(dom[1]))

\* C22: in the block made of one inline run the keys of the markDefs are
\* link-0, link-1, ... in order (pairwise distinct), every mark of a span
\* that is not strong, em or code is the key of exactly one markDef of the
\* block, and every markDef is the mark of at least one span.
C22_MarkIntegrity ==
    Len(ops) = 1 =>
        \A b \in 1..Len(content) :
            /\ \A k \in 1..Len(content[b].markDefs) :
                   /\ content[b].markDefs[k]._key = <<"link-", NumStr(k - 1)>>
                   /\ \E c \in 1..Len(content[b].children) :
                          \E m \in 1..Len(content[b].children[c].marks) :
                              content[b].children[c].marks[m] = content[b].markDefs[k]._key
            /\ \A c \in 1..Len(content[b].children) :
                   \A m \in 1..Len(content[b].children[c].marks) :
                       IsLinkMark(content[b].children[c].marks[m]) =>
                           Cardinality({k \in 1..Len(content[b].markDefs) :
                                           content[b].markDefs[k]._key
                                               = content[b].children[c].marks[m]}) = 1

(***************************************************************************)
(* Containers with text nodes and unrecognized elements at the top level.  *)
(***************************************************************************)
\* Top-level nodes the converters do not turn into blocks, with texts that
\* no other node holds.
StrayNodes ==
    {Text(<<"z">>), El("span", <<Text(<<"y">>)>>), El("section", <<El("p", <<Text(<<"w">>)>>)>>)}

FallbackNodes ==
    StrayNodes \cup {Rule, BlankP, ImageNoSrc, P1, H1, UList, A(<<"/", "p">>, <<Text(<<"g">>)>>)}

InitFallback ==
    /\ dom \in SeqsUpTo(FallbackNodes, MaxBlocks)
    /\ content = <<>>
    /\ before = <<>>
    /\ ops = <<>>
    /\ now = 0
    /\ record = <<>>
    /\ store = <<>>
    /\ calls = <<>>
    /\ input = <<>>
    /\ drawn = <<>>
    /\ html = <<>>
    /\ desc = <<>>
    /\ title = <<>>
    /\ fileName = <<>>

SpecFallback == InitFallback /\ [][NextConvert]_vars

\* The blocks the direct children of the container produced in the latest
\* conversion.
DirectBlocks ==
    IF ops = <<"htmlToPortableText">> THEN BlocksOfElements(ElementChildren(dom))
    ELSE BlocksOfElementsSubstack(ElementChildren(dom))

\* The text of the spans of a block, in order.
BlockSpanText(block) == Flatten([c \in 1..Len(block.children) |-> block.children[c].text])

\* The text of the container that the top-level text nodes and the
\* top-level elements of unrecognized tags hold.
StrayTexts ==
    {Trim(textContent(dom[i])) :
        i \in {j \in 1..Len(dom) :
                  /\ dom[j].nodeType = 3
                     \/ dom[j].tagName \notin Headings \cup {"blockquote", "ul", "ol", "img",
                                                            "p", "div", "pre"}
                  /\ Trim(textContent(dom[j])) # <<>>}}

NestedList ==
    El("ul", <<El("li", <<Text(<<"a">>), El("ul", <<El("li", <<Text(<<"b">>)>>)>>)>>)>>)

\* <ol><li>c</li><li> </li><li><strong>d</strong>e</li></ol>
NumberedList ==
    El("ol", <<El("li", <<Text(<<"c">>)>>), El("li", <<Text(<<" ">>)>>),
               El("li", <<El("strong", <<Text(<<"d">>)>>), Text(<<"e">>)>>)>>)

\* <ol><li>f<ul><li>g</li><li>h</li></ul></li></ol>
MixedList ==
    El("ol", <<El("li", <<Text(<<"f">>),
                          El("ul", <<El("li", <<Text(<<"g">>)>>),
                                     El("li", <<Text(<<"h">>)>>)>>)>>)>>)

ListElements == {UList, OList, NestedList, NumberedList, MixedList}

\* Containers of lists that share no text.
ListBodies ==
    {body \in SeqsUpTo(ListElements, MaxBlocks) :
        \A i \in 1..Len(body) : \A j \in 1..Len(body) : i # j => body[i] # body[j]}

InitFlatten ==
    /\ dom \in ListBodies
    /\ content = <<>>
    /\ before = <<>>
    /\ ops = <<>>
    /\ now = 0
    /\ record = <<>>
    /\ store = <<>>
    /\ calls = <<>>
    /\ input = <<>>
    /\ drawn = <<>>
    /\ html = <<>>
    /\ desc = <<>>
    /\ title = <<>>
    /\ fileName = <<>>

SpecFlatten == InitFlatten /\ [][NextConvert]_vars

\* The li descendants with text of the lists of the container, in document
\* order, each with the list type of its top-level list.
ListedItems ==
    Flatten([i \in 1..Len(dom) |->
        [k \in 1..Len(SelectSeq(querySelectorAll(dom[i], "li"),
                                LAMBDA li : Trim(textContent(li)) # <<>>)) |->
            [li |-> SelectSeq(querySelectorAll(dom[i], "li"),
                              LAMBDA li : Trim(textContent(li)) # <<>>)[k],
             listItem |-> IF dom[i].tagName = "ul" THEN "bullet" ELSE "number"]]])

\* The text of the li itself: that of its descendants outside a sub-list.
OwnText(li) ==
    textContentOf(SelectSeq(li.childNodes,
                            LAMBDA node : node.nodeType = 3 \/ node.tagName \notin {"ul", "ol"}))

\* C24: a container of lists becomes one 'normal' text block per li
\* descendant with text, in document order, with listItem 'bullet' under a
\* top-level ul and 'number' under a top-level ol, and the text of each li
\* is in exactly one block of the document.
C24_ListFlattening ==
    Len(ops) = 1 =>
        /\ Len(content) = Len(ListedItems)
        /\ \A k \in 1..Len(content) :
               /\ content[k]._type = "block"
               /\ content[k].style = "normal"
               /\ content[k].listItem = ListedItems[k].listItem
               /\ Occurrences(BlockSpanText(content[k]), OwnText(ListedItems[k].li)) # {}
        /\ \A k \in 1..Len(ListedItems) :
               Cardinality({b \in 1..Len(content) :
                               Occurrences(BlockSpanText(content[b]),
                                           OwnText(ListedItems[k].li)) # {}}) = 1

\* The post without its text blocks that have no children.
WithoutEmptyBlocks ==
    SelectSeq(content, LAMBDA block : block._type # "block" \/ block.children # <<>>)

\* C25: the markup of a post is the markup of the post without its text
\* blocks whose children render to nothing: such a block, list item or not,
\* adds no markup.
C25_EmptyBlockSilent ==
    ops # <<>> =>
        html = IF ops[1] = "rss-feed" THEN portableTextToHTML(WithoutEmptyBlocks)
               ELSE portableTextToHTMLBuild(WithoutEmptyBlocks)

(***************************************************************************)
(* Documents whose sources of the published date are each present or       *)
(* absent, every source with a date of its own.                            *)
(***************************************************************************)
DatedFile == <<"2", "0", "2", "2", "-", "0", "2", "-", "0", "2", ".", "h", "t", "m", "l">>

UndatedFile == <<"p", ".", "h", "t", "m", "l">>

IndexedDate == <<"2", "0", "2", "1", "-", "0", "1", "-", "0", "1">>

FullIndex ==
    << <<<<"p">>, IndexedDate>>,
       <<<<"2", "0", "2", "2", "-", "0", "2", "-", "0", "2">>, IndexedDate>> >>

JsonLdDate == <<"2", "0", "2", "0", "-", "0", "3", "-", "0", "3">>

SelectorDate == <<"2", "0", "1", "9", "-", "0", "4", "-", "0", "4">>

DatedBody ==
    <<El("p", <<Text(<<"o", "n", " ", "2", "0", "1", "8", "-", "0", "5", "-", "0", "5", ".">>)>>)>>

InitPrecedence ==
    /\ title = <<"a">>
    /\ fileName \in {DatedFile, UndatedFile}
    /\ dom \in {<<P1>>, DatedBody}
    /\ input \in {[PlainInput EXCEPT !.csv = csv, !.jsonLd = jsonLd,
                                     !.elements = elements, !.zone = zone] :
                    csv \in {<<>>, FullIndex}, zone \in Zones,
                    jsonLd \in {<<>>, <<JsonLdDate>>},
                    elements \in {<<>>, <<<<"s", "o", "o", "n">>>>, <<SelectorDate>>}}
    /\ before = <<>>
    /\ ops = <<>>
    /\ now = 0
    /\ record = <<>>
    /\ store = <<>>
    /\ calls = <<>>
    /\ drawn = <<>>
    /\ content = <<>>
    /\ html = <<>>
    /\ desc = <<>>

SpecPrecedence == InitPrecedence /\ [][NextDate]_vars

\* The date is that of the first source of the sequence that produced one,
\* and of no source after it.
FirstProduced(date, sources) ==
    \E k \in 1..Len(sources) :
        /\ sources[k] # None
        /\ date = sources[k]
        /\ \A j \in 1..(k - 1) : sources[j] = None

\* What each source of the published date produces for the document, in
\* the order index, file name, JSON-LD, selectors, body text, now.
DateSources ==
    <<IndexDate(input.csv, fileName),
      extractDateFromFilename(fileName, input.zone),
      FirstParsed(input.jsonLd, input.zone),
      FirstParsed(input.elements, input.zone),
      BodyTextDate(textContentOf(dom), input.today, input.zone),
      toISOString(input.today)>>

\* C26: the published date of the record is the date of the first of the
\* sources index, file name, JSON-LD, selectors, body text that produced
\* one, and the current instant only when none of them did.
C26_DatePrecedence ==
    ops # <<>> => FirstProduced(record.publishedAt, DateSources)

\* A document with a date in every source but the index: the record has the
\* date of the file name.
C26_Witness ==
    /\ ops # <<>>
    /\ input.csv = <<>>
    /\ fileName = DatedFile
    /\ input.jsonLd # <<>>
    /\ input.elements = <<SelectorDate>>
    /\ dom = DatedBody
    /\ SubSeq(record.publishedAt, 1, 10) = SubSeq(DatedFile, 1, 10)

(***************************************************************************)
(* The update of the skipped posts (update-skipped-posts.js): a file is    *)
(* matched to a stored post by its title alone.                            *)
(***************************************************************************)
\* keyWords.some(word => normalized.includes(word))
ContainsSome(normalized, keyWords) ==
    \E k \in 1..Len(keyWords) : Occurrences(normalized, keyWords[k]) # {}

\* keyWords.every(word => normalized.includes(word))
ContainsAll(normalized, keyWords) ==
    \A k \in 1..Len(keyWords) : Occurrences(normalized, keyWords[k]) # {}

\* normalizedTitle.split(/\s+/).filter(word => word.length > 2 &&
\* !/^\d+$/.test(word)).slice(0, 3)
KeyWords(normalizedTitle) ==
    LET firstThree(words) == SubSeq(words, 1, IF Len(words) > 3 THEN 3 ELSE Len(words))
    IN  firstThree(SelectSeq(SplitWords(normalizedTitle),
                             LAMBDA word : Len(word) > 2 /\ ~IsDigits(word)))

\* The loop over postsByTitle.entries(): the value of the first key, in the
\* order the keys were first set, that contains every key word; 0 if none.
PartialMatch(posts, keyWords) ==
    LET keyOf(i) == NormalizeTitle(posts[i].title)
        found(hits) ==
            IF hits = {} THEN 0
            ELSE PostByTitle(posts, keyOf(CHOOSE i \in hits : \A k \in hits : i <= k))
    IN  IF keyWords = <<>> THEN 0
        ELSE found({i \in 1..Len(posts) :
                       posts[i].title # <<>> /\ ContainsAll(keyOf(i), keyWords)})

\* The title of a file: the title of the document, decoded, cut at '|' and
\* trimmed; else the part of the base name after "<digits>.", with '-' and
\* '_' as spaces.
SkippedTitle(docTitle, name) ==
    LET cut(s) == Trim(RunOf(s, {s[i] : i \in 1..Len(s)} \ {"|"}))
        spaced(s) == Trim(ReplaceAll(ReplaceAll(s, <<"-">>, <<" ">>), <<"_">>, <<" ">>))
        named(baseName, digits) ==
            IF /\ digits # <<>> /\ Len(baseName) > Len(digits) + 1
               /\ baseName[Len(digits) + 1] = "."
            THEN spaced(Slice(baseName, Len(digits) + 1)) ELSE <<>>
        ofName(baseName) == named(baseName, RunOf(baseName, Digits))
    IN  OrElse(IF docTitle # <<>> THEN cut(decodeHtmlEntities(docTitle)) ELSE <<>>,
               ofName(BaseName(name)))

\* normalizedTitle.replace(/^\d+\s+/, '')
WithoutNumbers(normalizedTitle) ==
    LET rest(afterDigits) ==
            IF Len(afterDigits) < Len(normalizedTitle) /\ RunOf(afterDigits, WS) # <<>>
            THEN Slice(afterDigits, Len(RunOf(afterDigits, WS))) ELSE normalizedTitle
    IN  rest(Slice(normalizedTitle, Len(RunOf(normalizedTitle, Digits))))

\* existingPost of the loop of main: the index in the store of the post
\* matched to the title, or 0.
MatchSkipped(posts, found) ==
    LET stripped(normalizedTitle, titleWithoutNumbers) ==
            IF titleWithoutNumbers # normalizedTitle
            THEN PostByTitle(posts, titleWithoutNumbers) ELSE 0
        cascade(normalizedTitle) ==
            FirstHit(PostByTitle(posts, normalizedTitle),
                     PartialMatch(posts, KeyWords(normalizedTitle)),
                     stripped(normalizedTitle, WithoutNumbers(normalizedTitle)))
    IN  IF found = <<>> THEN 0 ELSE cascade(NormalizeTitle(found))

SkippedPosts ==
    {Post(<<"q", "1">>, <<"M", "y", " ", "G", "r", "e", "a", "t", " ", " ", "P", "o", "s", "t",
        " ", "T", "o", "d", "a", "y">>, None),
     Post(<<"q", "2">>, <<"G", "r", "e", "a", "t", " ", "P", "o", "s", "t">>, None),
     Post(<<"q", "3">>, <<"A", "b">>, None),
     Post(<<"q", "4">>, <<"R", "u", "l", "e", "s", " ", "O", "f", " ", "U", "p">>, None),
     Post(<<"q", "5">>, <<"g", "r", "e", "a", "t", " ", "p", "o", "s", "t">>, None)}

SkippedStores ==
    {<<>>} \cup {<<p>> : p \in SkippedPosts}
    \cup {<<pair[1], pair[2]>> : pair \in {x \in SkippedPosts \X SkippedPosts : x[1] # x[2]}}

SkippedTitles ==
    {<<>>, <<"G", "r", "e", "a", "t", " ", "P", "o", "s", "t", " ", "|", " ", "S", "u", "b">>,
        <<"g", "r", "e", "a", "t", " ", "p", "o", "s", "t", " ", "t", "o", "d", "a", "y", " ",
            "x">>, <<"T", "h", "e", " ", "G", "r", "e", "a", "t", " ", "P", "o", "s", "t", " ",
                "T", "o", "d", "a", "y">>, <<"1", "2", " ", "r", "u", "l", "e", "s">>,
     <<"1", "2", " ", "a", "b">>, <<"7", " ", "u", "p">>, <<"2", "0", "2", "4">>}

SkippedFiles == {<<"1", "2", ".", "g", "r", "e", "a", "t", "-", "p", "o", "s", "t", ".", "h", "t",
    "m", "l">>, <<"x", ".", "h", "t", "m", "l">>}

InitSkipped ==
    /\ dom = <<P1>>
    /\ store \in SkippedStores
    /\ fileName \in SkippedFiles
    /\ title \in SkippedTitles
    /\ input \in [dryRun : BOOLEAN, patchFails : BOOLEAN]
    /\ record = NoTotals
    /\ content = <<>>
    /\ before = <<>>
    /\ ops = <<>>
    /\ now = 0
    /\ calls = <<>>
    /\ drawn = <<>>
    /\ html = <<>>
    /\ desc = <<>>

\* One turn of the loop of main of update-skipped-posts.js, for a file whose
\* body is a paragraph: the post is matched by title; the converted and
\* keyed content is patched into it unless the run is a dry run.
UpdateSkipped ==
    /\ ops = <<>>
    /\ ops' = <<"updateSkipped">>
    /\ LET existingPost == MatchSkipped(store, SkippedTitle(title, fileName))
           newContent == htmlToPortableText(dom)
       IN  IF existingPost = 0
           THEN /\ record' = Counted(record, "skipped", None)
                /\ UNCHANGED <<content, before, now, drawn, calls, store>>
           ELSE /\ \E draws \in DrawsFor(TotalCalls(newContent, FALSE), now) :
                    /\ content' = addKeysToContent(newContent, draws)
                    /\ now' = LastTime(draws, now)
                    /\ drawn' = draws
                /\ before' = newContent
                /\ calls' = calls \o Patches(store[existingPost], input.dryRun, content')
                /\ IF ~input.dryRun /\ input.patchFails
                   THEN /\ record' = Counted(record, "error", store[existingPost]._id)
                        /\ store' = store
                   ELSE /\ record' = Counted(record, "success", store[existingPost]._id)
                        /\ store' = Patched(store, Patches(store[existingPost], input.dryRun,
                                                           content'))
    /\ UNCHANGED <<dom, html, desc, title, fileName, input>>

NextSkipped == UpdateSkipped

SpecSkipped == InitSkipped /\ [][NextSkipped]_vars

\* The title looked up for the file, normalized.
LookedUp == NormalizeTitle(SkippedTitle(title, fileName))

\* The posts of the store whose normalized title is the key.
TitledPosts(key) ==
    {i \in 1..Len(store) : store[i].title # <<>> /\ NormalizeTitle(store[i].title) = key}

\* The first three words of the looked-up title that are longer than two
\* characters and not all digits.
LookedUpWords ==
    LET words == SplitWords(LookedUp)
        kept == {i \in 1..Len(words) : Len(words[i]) > 2 /\ \E c \in 1..Len(words[i]) :
                                                              words[i][c] \notin Digits}
    IN  {words[i] : i \in {k \in kept : Cardinality({m \in kept : m <= k}) <= 3}}

\* The posts of the store whose normalized title contains every such word.
PartialPosts ==
    {i \in 1..Len(store) :
        /\ store[i].title # <<>>
        /\ LookedUpWords # {}
        /\ \A word \in LookedUpWords :
               Occurrences(NormalizeTitle(store[i].title), word) # {}}

\* The posts found under the looked-up title without its leading number.
NumberlessPosts ==
    LET digits == RunOf(LookedUp, Digits)
    IN  IF digits # <<>> /\ Len(LookedUp) > Len(digits) /\ LookedUp[Len(digits) + 1] = " "
        THEN TitledPosts(Slice(LookedUp, Len(digits) + 1)) ELSE {}

\* The post of the store the file was matched to: its index, or 0.
MatchedIndex ==
    IF record.post = None THEN 0 ELSE CHOOSE i \in 1..Len(store) : store[i]._id = record.post

\* C27: a file with a title is matched to a post of its exact normalized
\* title if there is one; else to the post indexed under the title of the
\* first post, in index order, whose normalized title contains every one of
\* the first three words longer than 2 characters and not purely digits, if
\* there are such words and such a post; else to a post of the normalized
\* title without its leading numeral if there is one; else to no post.
C27_TitleCascade ==
    (ops # <<>> /\ LookedUp # <<>>) =>
        IF TitledPosts(LookedUp) # {} THEN MatchedIndex \in TitledPosts(LookedUp)
        ELSE IF PartialPosts # {}
        THEN /\ MatchedIndex \in PartialPosts
             /\ MatchedIndex \in TitledPosts(NormalizeTitle(
                    store[CHOOSE i \in PartialPosts : \A k \in PartialPosts : i <= k].title))
        ELSE IF NumberlessPosts # {} THEN MatchedIndex \in NumberlessPosts
        ELSE MatchedIndex = 0 /\ record.result = "skipped"

\* A title of four words met no exact title and was matched to the second
\* post of the store, the first that holds its first three words.
C27_Witness ==
    /\ ops # <<>>
    /\ title = <<"g", "r", "e", "a", "t", " ", "p", "o", "s", "t", " ", "t", "o", "d", "a", "y",
        " ", "x">>
    /\ Len(store) = 2
    /\ store[1].title = <<"G", "r", "e", "a", "t", " ", "P", "o", "s", "t">>
    /\ MatchedIndex = 2
    /\ PartialPosts = {2}

\* The first heading block with children of the record, or None.
FirstHeading ==
    LET first(headings) == IF headings = <<>> THEN None ELSE headings[1]
    IN  first(SelectSeq(record.content,
                        LAMBDA b : /\ b._type = "block"
                                   /\ b.style \in {"h1", "h2", "h3", "h4"}
                                   /\ b.children # <<>>))

\* No meta tag, title selector or file name yielded a title.
NoTitleFound ==
    /\ ops = <<"parseSubstackHTML">>
    /\ HtmlTitle(before, dom, input.docTitle) = <<>>
    /\ ResolveTitle(<<>>, fileName) = UntitledPost

\* C28: when no meta tag, title selector or file name yields a title and the
\* converted content contains a heading block with text, the returned title
\* is the cleaned text of the first such heading, not the default.
C28_HeadingTitle ==
    (NoTitleFound /\ FirstHeading # None /\ Trim(BlockText(FirstHeading)) # <<>>) =>
        /\ record.title = cleanTitle(Trim(BlockText(FirstHeading)))
        /\ record.title # cleanTitle(UntitledPost)

\* C29: cleanTitle is idempotent: a title cleanTitle returned is left as it
\* is by another application of cleanTitle.
C29_CleanTitleIdempotent ==
    (ops # <<>> /\ ops[Len(ops)] = "cleanTitle" /\ title = cleanTitle(before)) =>
        cleanTitle(title) = title

(***************************************************************************)
(* The run of main of update-post-formatting.js over the selected files.   *)
(* A call of processFile runs without interruption up to its first await,  *)
(* the patch of the matched post; the patches of a batch are then in       *)
(* flight together and commit or fail in any order.                        *)
(***************************************************************************)
MaxFiles == 4

\* Promise.race in the place of Promise.all: settled when one promise is.
PromiseAny(results, batch) == \E f \in batch : results[f].settled

\* Promise.all over the promises of the batch: settled when all are, as
\* processFile never rejects.
PromiseAll(results, batch) == \A f \in batch : results[f].settled

\* The values processFile returns, and the promise that has not settled yet.
Pending == [settled |-> FALSE, skipped |-> FALSE, success |-> FALSE, error |-> <<>>]

SkippedResult == [Pending EXCEPT !.settled = TRUE, !.skipped = TRUE]

SuccessResult == [Pending EXCEPT !.settled = TRUE, !.success = TRUE]

ErrorResult(message) == [Pending EXCEPT !.settled = TRUE, !.error = message]

\* error.message of the errors the client rejects a patch with.
ErrorMessages == {<<"M", "u", "t", "a", "t", "i", "o", "n", " ", "f", "a", "i", "l", "e", "d">>}

\* The number of files main hands to processFile before it awaits them.
BatchSize(parallelCount) == IF parallelCount > 1 THEN parallelCount ELSE 1

\* filesToProcess.slice(i, i + parallelCount), as file numbers from 1.
BatchAt(i, parallelCount, total) ==
    {f \in 1..total : i < f /\ f <= i + BatchSize(parallelCount)}

\* The keys of a run in which the clock does not tick and no suffix repeats.
SteadyDraws(n, t0) == [k \in 1..n |-> <<RandTable[k], t0>>]

\* contentWithKeys of a file whose body is one paragraph.
ContentWithKeys ==
    LET keyed(portableTextContent) ==
            addKeysToContent(portableTextContent,
                             SteadyDraws(TotalCalls(portableTextContent, FALSE), 0))
    IN  keyed(htmlToPortableText(<<P1>>))

\* What the call of processFile for file f leaves when it returns its
\* promise: the result if it has one already, and the patch it has sent.
Started(posts, name, dryRun) ==
    LET begun(existingPost) ==
            IF existingPost = 0 THEN [result |-> SkippedResult, sent |-> <<>>]
            ELSE IF dryRun THEN [result |-> SuccessResult, sent |-> <<>>]
            ELSE [result |-> Pending,
                  sent |-> Patches(posts[existingPost], dryRun, ContentWithKeys)]
    IN  begun(MatchPost(posts, name, <<>>))

\* The counting of the results of a batch by main.
CountedBatch(totals, results, batch) ==
    [totals EXCEPT
        !.skipCount = @ + Cardinality({f \in batch : results[f].skipped}),
        !.successCount = @ + Cardinality({f \in batch : ~results[f].skipped
                                                        /\ results[f].success}),
        !.errorCount = @ + Cardinality({f \in batch : /\ ~results[f].skipped
                                                      /\ ~results[f].success
                                                      /\ results[f].error # <<>>})]

ParallelFiles == {<<"2", "2", "0", ".", "m", "y", "-", "p", "o", "s", "t", ".", "h", "t", "m",
    "l">>, <<"m", "y", "-", "p", "o", "s", "t", ".", "h", "t", "m", "l">>, <<"7", ".", "x", ".",
        "h", "t", "m", "l">>}

ParallelStore ==
    <<Post(<<"p", "1">>, <<"O", "t", "h", "e", "r">>, <<"2", "2", "0", "m", "y", "-", "p", "o",
        "s", "t">>), Post(<<"p", "4">>, <<>>, <<"m", "y", "-", "p", "o", "s", "t">>)>>

InitParallel ==
    /\ input \in [dryRun : BOOLEAN, parallelCount : 1..3,
                  files : SeqsUpTo(ParallelFiles, MaxFiles)]
    /\ store = ParallelStore
    /\ record = [i |-> 0, phase |-> "loop", inFlight |-> {},
                 results |-> [f \in 1..Len(input.files) |-> Pending],
                 successCount |-> 0, skipCount |-> 0, errorCount |-> 0]
    /\ calls = <<>>
    /\ ops = <<>>
    /\ content = <<>>
    /\ before = <<>>
    /\ now = 0
    /\ drawn = <<>>
    /\ dom = <<P1>>
    /\ html = <<>>
    /\ desc = <<>>
    /\ title = <<>>
    /\ fileName = <<>>

\* The body of the loop up to its await: processFile is called for every file
\* of the batch in turn, and each call runs to its return or to the await of
\* its patch.
StartBatch ==
    /\ record.phase = "loop"
    /\ record.i < Len(input.files)
    /\ LET batch == BatchAt(record.i, input.parallelCount, Len(input.files))
           started(f) == Started(store, input.files[f], input.dryRun)
           events(f) == IF started(f).result.settled THEN <<<<"start", f>>, <<"finish", f>>>>
                        ELSE <<<<"start", f>>>>
           last == record.i + Cardinality(batch)
       IN  /\ record' = [record EXCEPT
                  !.phase = "await",
                  !.inFlight = {f \in batch : ~started(f).result.settled},
                  !.results = [f \in 1..Len(input.files) |->
                                  IF f \in batch THEN started(f).result ELSE @[f]]]
           /\ calls' = calls \o Flatten([k \in 1..Cardinality(batch) |->
                                            started(record.i + k).sent])
           /\ ops' = ops \o Flatten([k \in 1..Cardinality(batch) |-> events(record.i + k)])
    /\ UNCHANGED <<content, before, now, drawn, dom, html, desc, title, fileName, store, input>>

\* The patch of file f commits or is rejected; processFile returns its
\* result.
CommitPatch ==
    /\ \E f \in record.inFlight :
          /\ \E outcome \in {SuccessResult} \cup {ErrorResult(m) : m \in ErrorMessages} :
                /\ record' = [record EXCEPT !.inFlight = @ \ {f}, !.results[f] = outcome]
                /\ store' = IF outcome.success
                            THEN Patched(store, Started(store, input.files[f], FALSE).sent)
                            ELSE store
          /\ ops' = Append(ops, <<"finish", f>>)
    /\ UNCHANGED <<content, before, now, drawn, dom, html, desc, title, fileName, calls, input>>

\* The await of the batch ends: the results are counted, and the loop goes on
\* at once or after the delay between batches.
CountBatch ==
    /\ record.phase = "await"
    /\ LET batch == BatchAt(record.i, input.parallelCount, Len(input.files))
           counted == CountedBatch(record, record.results, batch)
           next == record.i + BatchSize(input.parallelCount)
       IN  /\ PromiseAll(record.results, batch)
           /\ record' = [counted EXCEPT
                  !.i = next,
                  !.phase = IF next < Len(input.files) /\ ~input.dryRun
                            THEN "delay" ELSE "loop"]
    /\ UNCHANGED <<content, before, ops, now, drawn, dom, html, desc, title, fileName>>
    /\ UNCHANGED <<store, calls, input>>

\* The timer of the delay between batches fires.
DelayOver ==
    /\ record.phase = "delay"
    /\ record' = [record EXCEPT !.phase = "loop"]
    /\ UNCHANGED <<content, before, ops, now, drawn, dom, html, desc, title, fileName>>
    /\ UNCHANGED <<store, calls, input>>

\* The loop ends and main prints the summary.
Summary ==
    /\ record.phase = "loop"
    /\ record.i >= Len(input.files)
    /\ record' = [record EXCEPT !.phase = "done"]
    /\ UNCHANGED <<content, before, ops, now, drawn, dom, html, desc, title, fileName>>
    /\ UNCHANGED <<store, calls, input>>

NextParallel == StartBatch \/ CommitPatch \/ CountBatch \/ DelayOver \/ Summary

SpecParallel == InitParallel /\ [][NextParallel]_vars

\* The places in the log of the run where file f starts, and where it ends.
StartsOf(f) == {k \in 1..Len(ops) : ops[k] = <<"start", f>>}

FinishesOf(f) == {k \in 1..Len(ops) : ops[k] = <<"finish", f>>}

\* The files being processed: started and not finished.
InProcess == {f \in 1..Len(input.files) : StartsOf(f) # {} /\ FinishesOf(f) = {}}

\* The number of the batch of file f, from 0.
BatchOf(f) == (f - 1) \div BatchSize(input.parallelCount)

\* C30: in a run with --parallel N at most N files are being processed, and
\* at most N patches are in flight, at every moment; no file of a batch
\* starts before every file of the batch before it has finished; no file is
\* processed twice, and when the run ends every selected file has been
\* processed once and the updated, skipped and error totals sum to the
\* number of selected files.
C30_BoundedBatches ==
    /\ Cardinality(InProcess) <= input.parallelCount
    /\ Cardinality(record.inFlight) <= input.parallelCount
    /\ record.inFlight \subseteq InProcess
    /\ \A f \in 1..Len(input.files) :
          /\ Cardinality(StartsOf(f)) <= 1
          /\ Cardinality(FinishesOf(f)) <= 1
          /\ \A k \in StartsOf(f) : \A g \in 1..Len(input.files) :
                 BatchOf(g) < BatchOf(f) => \E m \in FinishesOf(g) : m < k
    /\ record.phase = "done" =>
          /\ \A f \in 1..Len(input.files) :
                 Cardinality(StartsOf(f)) = 1 /\ Cardinality(FinishesOf(f)) = 1
          /\ record.successCount + record.skipCount + record.errorCount = Len(input.files)

\* A run of four files in batches of two has ended: the two patches of the
\* second batch were in flight together, and one of them failed.
C30_Witness ==
    /\ record.phase = "done"
    /\ input.parallelCount = 2
    /\ Len(input.files) = 4
    /\ \E k \in 1..Len(ops) - 1 : ops[k] = <<"start", 3>> /\ ops[k + 1] = <<"start", 4>>
    /\ record.errorCount = 1
    /\ record.successCount = 2
    /\ record.skipCount = 1

====
